------------------------ MODULE MemoryBackendProofs ------------------------
(***************************************************************************)
(* Proofs about MemoryBackend, for any number of callers, watchers and paths  *)
(* and any capacity of the ring and the channels: the backend implements the  *)
(* storage contract, its events account for its map, a stream has no gap and  *)
(* a listing leads to every stored path and no other.                        *)
(***************************************************************************)
EXTENDS MemoryBackend, FiniteSetTheorems, SequenceTheorems, TLAPS

\* The channels are functions on the watchers.
Channels == out \in [Watchers -> Seq(Events)] /\ got \in [Watchers -> Seq(Events)]

\* The changes made never exceed the bound, sent or not.
RoomIsKept ==
    IsFiniteSet(InFlight) /\ Len(log) + Cardinality(InFlight) <= MaxEvents

\* A task reads the log between its subscription and the end, and a watch not
\* yet made has been handed nothing.
TasksPlaced ==
    \A w \in Watchers :
        /\ from[w] <= pos[w] /\ pos[w] <= Len(log) + 1
        /\ task[w] = "none" => got[w] = <<>> /\ out[w] = <<>>
        /\ task[w] = "send" => held[w] \in Events

MemInv ==
    /\ TypeOK /\ Channels /\ RoomIsKept /\ TasksPlaced
    /\ EventsAccountForMap /\ StreamHasNoGap

----------------------------------------------------------------------------
(* The contract.                                                           *)

\* The backend implements the contract of the trait: whatever watchers do and
\* however sends are delayed, put, delete and get take effect at one instant.
THEOREM MemoryImplementsContract == Spec => ImplementsContract
<1> DEFINE DataOK == data \in [Keys -> Entries \cup {NoEntry}]
<1>1. Init => DataOK /\ Contract!Init
  BY DEF Init, Contract!Init
<1>2. DataOK /\ [Next]_vars => DataOK' /\ [Contract!Next]_<<data, answer>>
  <2> SUFFICES ASSUME DataOK, [Next]_vars
               PROVE DataOK' /\ [Contract!Next]_<<data, answer>>
    OBVIOUS
  <2>1. ASSUME NEW c \in Clients, NEW k \in Keys, NEW e \in Entries, Put(c, k, e)
        PROVE DataOK' /\ Contract!Next
    BY <2>1 DEF Put, Contract!Next, Contract!Put
  <2>2. ASSUME NEW c \in Clients, NEW k \in Keys, Delete(c, k)
        PROVE DataOK' /\ Contract!Next
    <3>1. DataOK' /\ Contract!Delete(c, k)
      BY <2>2 DEF Delete, Contract!Delete
    <3> QED BY <3>1 DEF Contract!Next
  <2>3. ASSUME NEW c \in Clients, NEW k \in Keys, Get(c, k)
        PROVE DataOK' /\ Contract!Next
    <3>1. DataOK' /\ Contract!Get(c, k)
      BY <2>3 DEF Get, Contract!Get, Contract!Stored
    <3> QED BY <3>1 DEF Contract!Next
  <2>4. ASSUME UNCHANGED <<data, answer>>
        PROVE DataOK' /\ [Contract!Next]_<<data, answer>>
    BY <2>4
  <2>5. ASSUME NEW c \in Clients, SendEvent(c) PROVE UNCHANGED <<data, answer>>
    BY <2>5 DEF SendEvent, store
  <2>6. ASSUME NEW w \in Watchers,
               Watch(w) \/ Receive(w) \/ Forward(w) \/ Consume(w) \/ Close(w)
        PROVE UNCHANGED <<data, answer>>
    BY <2>6 DEF Watch, Receive, Forward, Consume, Close, store
  <2>7. CASE UNCHANGED vars
    BY <2>4, <2>7 DEF vars, store
  <2> QED BY <2>1, <2>2, <2>3, <2>4, <2>5, <2>6, <2>7 DEF Next
<1> QED BY <1>1, <1>2, PTL DEF Spec, ImplementsContract, Contract!Spec

----------------------------------------------------------------------------
(* Streams: h holds what l has at the indices in due, in their order.        *)

InOrder(h, due, l) ==
    \E at \in [1..Len(h) -> due] :
        /\ \A n \in due : \E m \in 1..Len(h) : at[m] = n
        /\ \A m, n \in 1..Len(h) : m < n => at[m] < at[n]
        /\ \A m \in 1..Len(h) : h[m] = l[at[m]]

Due(w) == Covered(root[w], from[w], pos[w] - 1)

LEMMA StreamsInOrder ==
    StreamHasNoGap <=> \A w \in Watchers : open[w] => InOrder(Handed(w), Due(w), log)
BY DEF StreamHasNoGap, InOrder, Due

LEMMA NothingInOrder ==
    ASSUME NEW l, NEW h, h = <<>> PROVE InOrder(h, {}, l)
<1>1. 1..Len(h) = {}
  BY EmptySeq
<1>2. [x \in {} |-> x] \in [1..Len(h) -> {}]
  BY <1>1
<1> QED BY <1>1, <1>2 DEF InOrder

\* The next event due is handed out last.
LEMMA OneMoreInOrder ==
    ASSUME NEW l \in Seq(Events), NEW h \in Seq(Events), NEW due \in SUBSET Nat,
           NEW p \in 1..Len(l), \A n \in due : n < p, InOrder(h, due, l)
    PROVE InOrder(Append(h, l[p]), due \cup {p}, l)
<1>1. PICK at \in [1..Len(h) -> due] :
          /\ \A n \in due : \E m \in 1..Len(h) : at[m] = n
          /\ \A m, n \in 1..Len(h) : m < n => at[m] < at[n]
          /\ \A m \in 1..Len(h) : h[m] = l[at[m]]
  BY DEF InOrder
<1> DEFINE g == Append(h, l[p])
           new == [m \in 1..(Len(h) + 1) |-> IF m = Len(h) + 1 THEN p ELSE at[m]]
<1>2. /\ l[p] \in Events /\ Len(h) \in Nat
      /\ g \in Seq(Events) /\ Len(g) = Len(h) + 1
      /\ \A m \in 1..Len(h) : g[m] = h[m]
      /\ g[Len(h) + 1] = l[p]
  BY ElementOfSeq, AppendProperties, LenProperties
<1>3. \A m \in 1..Len(h) : new[m] = at[m] /\ at[m] \in due
  BY <1>2
<1>4. new[Len(h) + 1] = p
  BY <1>2
<1>5. new \in [1..Len(g) -> due \cup {p}]
  BY <1>2
<1> HIDE DEF new, g
<1>6. ASSUME NEW n \in due \cup {p} PROVE \E m \in 1..Len(g) : new[m] = n
  <2>1. CASE n \in due
    <3>1. PICK m \in 1..Len(h) : at[m] = n
      BY <1>1, <2>1
    <3>2. m \in 1..Len(g)
      BY <1>2
    <3> QED BY <1>3, <3>1, <3>2
  <2>2. CASE n = p
    BY <1>2, <1>4, <2>2
  <2> QED BY <2>1, <2>2
<1>7. ASSUME NEW m \in 1..Len(g), NEW n \in 1..Len(g), m < n PROVE new[m] < new[n]
  <2>1. m \in 1..Len(h)
    BY <1>2, <1>7
  <2>2. CASE n \in 1..Len(h)
    BY <1>1, <1>3, <1>7, <2>1, <2>2
  <2>3. CASE n = Len(h) + 1
    BY <1>3, <1>4, <2>1, <2>3
  <2> QED BY <1>2, <2>2, <2>3
<1>8. ASSUME NEW m \in 1..Len(g) PROVE g[m] = l[new[m]]
  BY <1>1, <1>2, <1>3, <1>4
<1>9. InOrder(g, due \cup {p}, l)
  BY <1>5, <1>6, <1>7, <1>8 DEF InOrder
<1> QED BY <1>9 DEF g

\* A stream stays as it is while the log grows.
LEMMA GrowthKeepsOrder ==
    ASSUME NEW l \in Seq(Events), NEW e \in Events, NEW h,
           NEW due \in SUBSET (1..Len(l)), InOrder(h, due, l)
    PROVE InOrder(h, due, Append(l, e))
<1>1. \A i \in 1..Len(l) : Append(l, e)[i] = l[i]
  BY AppendProperties
<1>2. PICK at \in [1..Len(h) -> due] :
          /\ \A n \in due : \E m \in 1..Len(h) : at[m] = n
          /\ \A m, n \in 1..Len(h) : m < n => at[m] < at[n]
          /\ \A m \in 1..Len(h) : h[m] = l[at[m]]
  BY DEF InOrder
<1>3. \A m \in 1..Len(h) : h[m] = Append(l, e)[at[m]]
  BY <1>1, <1>2
<1> HIDE DEF InOrder
<1> QED BY <1>2, <1>3 DEF InOrder

----------------------------------------------------------------------------
(* What has been handed out, as tasks and holders move events along.         *)

LEMMA ConsumeMovesOn ==
    ASSUME NEW g \in Seq(Events), NEW o \in Seq(Events), o # <<>>, NEW x \in Seq(Events)
    PROVE Append(g, Head(o)) \o Tail(o) \o x = g \o o \o x
<1>1. /\ Head(o) \in Events /\ Tail(o) \in Seq(Events) /\ Len(o) \in Nat \ {0}
      /\ Len(Tail(o)) = Len(o) - 1 /\ Head(o) = o[1]
      /\ \A i \in 1..Len(Tail(o)) : Tail(o)[i] = o[i + 1]
  BY HeadTailProperties, EmptySeq, LenProperties
<1>2. Append(g, Head(o)) = g \o <<Head(o)>>
  BY <1>1, AppendIsConcat
<1>3. <<Head(o)>> \in Seq(Events) /\ <<Head(o)>> \o Tail(o) = o
  BY <1>1
<1>4. (g \o <<Head(o)>>) \o Tail(o) = g \o (<<Head(o)>> \o Tail(o))
  BY <1>1, <1>3, ConcatAssociative
<1> QED BY <1>2, <1>3, <1>4

LEMMA ForwardMovesOn ==
    ASSUME NEW g \in Seq(Events), NEW o \in Seq(Events), NEW e \in Events
    PROVE g \o Append(o, e) \o <<>> = g \o o \o <<e>>
<1>1. <<e>> \in Seq(Events) /\ Append(o, e) = o \o <<e>> /\ Append(o, e) \in Seq(Events)
  BY AppendIsConcat
<1>2. (g \o o) \o <<e>> = g \o (o \o <<e>>)
  BY <1>1, ConcatAssociative
<1>3. g \o Append(o, e) \in Seq(Events)
  BY <1>1, ConcatProperties
<1> QED BY <1>1, <1>2, <1>3, ConcatEmptySeq

LEMMA ReceiveAddsLast ==
    ASSUME NEW g \in Seq(Events), NEW o \in Seq(Events), NEW e \in Events
    PROVE g \o o \o <<e>> = Append(g \o o \o <<>>, e)
<1>1. g \o o \in Seq(Events)
  BY ConcatProperties
<1> QED BY <1>1, ConcatEmptySeq, AppendIsConcat

----------------------------------------------------------------------------
(* Counting events.                                                        *)

LEMMA EventsDiffer ==
    /\ NoEvent \notin Events
    /\ \A kind \in Kinds, k \in Keys : Event(kind, k) \in Events
    /\ \A kind, kd \in Kinds, k, j \in Keys :
          Event(kind, k) = Event(kd, j) => kind = kd /\ k = j
BY DEF NoEvent, Events, Event, Kinds

LEMMA CountsFinite ==
    ASSUME TypeOK, RoomIsKept, NEW kind \in Kinds, NEW k \in Keys
    PROVE /\ IsFiniteSet(Sent(kind, k)) /\ Cardinality(Sent(kind, k)) \in Nat
          /\ IsFiniteSet(Pending(kind, k)) /\ Cardinality(Pending(kind, k)) \in Nat
<1>1. IsFiniteSet(1..Len(log))
  <2>1. Len(log) \in Int /\ 1 \in Int
    BY LenProperties DEF TypeOK
  <2> QED BY <2>1, FS_Interval
<1>2. Sent(kind, k) \subseteq 1..Len(log)
  BY DEF Sent
<1>3. Pending(kind, k) \subseteq InFlight
  BY EventsDiffer DEF Pending, InFlight
<1> QED BY <1>1, <1>2, <1>3, FS_Subset, FS_CardinalityType DEF RoomIsKept

\* A change raises the count of its own event by one and no other.
LEMMA ChangeCounts ==
    ASSUME TypeOK, RoomIsKept, Room, NEW c \in Clients, Idle(c),
           NEW kd \in Kinds, NEW k \in Keys,
           unsent' = [unsent EXCEPT ![c] = Event(kd, k)], log' = log
    PROVE /\ RoomIsKept'
          /\ Count(kd, k)' = Count(kd, k) + 1
          /\ \A kind \in Kinds, j \in Keys :
                ~(kind = kd /\ j = k) => Count(kind, j)' = Count(kind, j)
<1>1. /\ unsent' \in [Clients -> Events \cup {NoEvent}] /\ unsent[c] = NoEvent
      /\ \A d \in Clients : unsent'[d] = IF d = c THEN Event(kd, k) ELSE unsent[d]
      /\ Event(kd, k) # NoEvent
  BY EventsDiffer DEF TypeOK, Idle
<1>2. RoomIsKept'
  <2>1. InFlight' = InFlight \cup {c} /\ c \notin InFlight
    BY <1>1 DEF InFlight
  <2>2. IsFiniteSet(InFlight') /\ Cardinality(InFlight') = Cardinality(InFlight) + 1
    BY <2>1, FS_AddElement DEF RoomIsKept
  <2>3. Cardinality(InFlight) \in Nat /\ Len(log) \in Nat
    BY FS_CardinalityType, LenProperties DEF RoomIsKept, TypeOK
  <2> QED BY <2>2, <2>3, MemoryAssumption DEF RoomIsKept, Room
<1>3. ASSUME NEW kind \in Kinds, NEW j \in Keys
      PROVE Count(kind, j)' = IF kind = kd /\ j = k THEN Count(kind, j) + 1 ELSE Count(kind, j)
  <2>1. Sent(kind, j)' = Sent(kind, j)
    BY DEF Sent
  <2>2. /\ IsFiniteSet(Pending(kind, j)) /\ Cardinality(Pending(kind, j)) \in Nat
        /\ Cardinality(Sent(kind, j)) \in Nat
    BY CountsFinite
  <2>3. Event(kind, j) # NoEvent /\ (Event(kind, j) = Event(kd, k) <=> kind = kd /\ j = k)
    BY EventsDiffer
  <2>4. CASE kind = kd /\ j = k
    <3>1. Pending(kind, j)' = Pending(kind, j) \cup {c} /\ c \notin Pending(kind, j)
      BY <1>1, <2>3, <2>4 DEF Pending
    <3>2. Cardinality(Pending(kind, j)') = Cardinality(Pending(kind, j)) + 1
      BY <2>2, <3>1, FS_AddElement
    <3> QED BY <2>1, <2>2, <2>4, <3>2 DEF Count
  <2>5. CASE ~(kind = kd /\ j = k)
    <3>1. Pending(kind, j)' = Pending(kind, j)
      BY <1>1, <2>3, <2>5 DEF Pending
    <3> QED BY <2>1, <2>2, <2>5, <3>1 DEF Count
  <2> QED BY <2>4, <2>5
<1> QED BY <1>2, <1>3

\* Sending an event moves it from the caller to the log.
LEMMA SendCounts ==
    ASSUME TypeOK, RoomIsKept, NEW c \in Clients, unsent[c] # NoEvent,
           unsent' = [unsent EXCEPT ![c] = NoEvent], log' = Append(log, unsent[c])
    PROVE /\ RoomIsKept' /\ log' \in Seq(Events) /\ Len(log') = Len(log) + 1
          /\ Len(log') <= MaxEvents
          /\ \A kind \in Kinds, j \in Keys : Count(kind, j)' = Count(kind, j)
<1>1. /\ unsent' \in [Clients -> Events \cup {NoEvent}] /\ unsent[c] \in Events
      /\ \A d \in Clients : unsent'[d] = IF d = c THEN NoEvent ELSE unsent[d]
  BY DEF TypeOK
<1>2. /\ log' \in Seq(Events) /\ Len(log') = Len(log) + 1 /\ Len(log) \in Nat
      /\ \A i \in 1..Len(log) : log'[i] = log[i]
      /\ log'[Len(log) + 1] = unsent[c]
  BY <1>1, AppendProperties, LenProperties DEF TypeOK
<1>3. RoomIsKept' /\ Len(log') <= MaxEvents
  <2>1. InFlight' = InFlight \ {c} /\ c \in InFlight
    BY <1>1 DEF InFlight
  <2>2. IsFiniteSet(InFlight') /\ Cardinality(InFlight') = Cardinality(InFlight) - 1
    BY <2>1, FS_RemoveElement DEF RoomIsKept
  <2>3. Cardinality(InFlight) \in Nat /\ Cardinality(InFlight') \in Nat
    BY <2>2, FS_CardinalityType DEF RoomIsKept
  <2> QED BY <1>2, <2>2, <2>3, MemoryAssumption DEF RoomIsKept
<1>4. ASSUME NEW kind \in Kinds, NEW j \in Keys PROVE Count(kind, j)' = Count(kind, j)
  <2>1. /\ IsFiniteSet(Pending(kind, j)) /\ Cardinality(Pending(kind, j)) \in Nat
        /\ IsFiniteSet(Sent(kind, j)) /\ Cardinality(Sent(kind, j)) \in Nat
    BY CountsFinite
  <2>2. Event(kind, j) # NoEvent
    BY EventsDiffer
  <2>3. CASE unsent[c] = Event(kind, j)
    <3>1. Pending(kind, j)' = Pending(kind, j) \ {c} /\ c \in Pending(kind, j)
      BY <1>1, <2>2, <2>3 DEF Pending
    <3>2. /\ Sent(kind, j)' = Sent(kind, j) \cup {Len(log) + 1}
          /\ Len(log) + 1 \notin Sent(kind, j)
      BY <1>2, <2>3 DEF Sent
    <3>3. Cardinality(Pending(kind, j)') = Cardinality(Pending(kind, j)) - 1
      BY <2>1, <3>1, FS_RemoveElement
    <3>4. Cardinality(Sent(kind, j)') = Cardinality(Sent(kind, j)) + 1
      BY <2>1, <3>2, FS_AddElement
    <3> QED BY <2>1, <3>3, <3>4 DEF Count
  <2>4. CASE unsent[c] # Event(kind, j)
    <3>1. Pending(kind, j)' = Pending(kind, j)
      BY <1>1, <2>2, <2>4 DEF Pending
    <3>2. Sent(kind, j)' = Sent(kind, j)
      BY <1>2, <2>4 DEF Sent
    <3> QED BY <3>1, <3>2 DEF Count
  <2> QED BY <2>3, <2>4
<1> QED BY <1>2, <1>3, <1>4

----------------------------------------------------------------------------
(* The invariant.                                                          *)

LEMMA MemInitial == Init => MemInv
<1> SUFFICES ASSUME Init PROVE MemInv
  OBVIOUS
<1>1. PICK none \in Seq(Events) : none = <<>> /\ Len(none) = 0
  BY EmptySeq
<1>2. /\ log = none
      /\ out = [w \in Watchers |-> none] /\ got = [w \in Watchers |-> none]
  BY <1>1 DEF Init
<1>3. TypeOK /\ Channels
  BY <1>1, <1>2, MemoryAssumption
  DEF Init, TypeOK, Channels, Contract!Init, Contract!Answers, Contract!NoAnswer
<1>4. RoomIsKept
  <2>1. InFlight = {}
    BY DEF Init, InFlight
  <2> QED BY <1>1, <1>2, <2>1, FS_EmptySet, MemoryAssumption DEF RoomIsKept
<1>5. TasksPlaced
  BY <1>1, <1>2 DEF Init, TasksPlaced
<1>6. EventsAccountForMap
  <2>1. ASSUME NEW kind \in Kinds, NEW k \in Keys PROVE Count(kind, k) = 0
    <3>1. Sent(kind, k) = {}
      BY <1>1, <1>2 DEF Sent
    <3>2. Pending(kind, k) = {}
      BY EventsDiffer DEF Init, Pending
    <3>3. Cardinality(Sent(kind, k)) = 0 /\ Cardinality(Pending(kind, k)) = 0
      BY <3>1, <3>2, FS_EmptySet
    <3> QED BY <3>3 DEF Count
  <2>2. \A k \in Keys : data[k] = NoEntry
    BY DEF Init, Contract!Init
  <2> QED BY <2>1, <2>2 DEF EventsAccountForMap, Kinds
<1>7. StreamHasNoGap
  <2> SUFFICES ASSUME NEW w \in Watchers PROVE InOrder(Handed(w), Due(w), log)
    BY StreamsInOrder
  <2>1. Handed(w) = none \o none \o none
    BY <1>1, <1>2 DEF Init, Handed
  <2>2. Handed(w) = <<>>
    BY <1>1, <2>1, ConcatEmptySeq
  <2>3. Due(w) = {}
    BY DEF Init, Due, Covered
  <2> QED BY <2>2, <2>3, NothingInOrder
<1> QED BY <1>3, <1>4, <1>5, <1>6, <1>7 DEF MemInv

\* A caller's step leaves the watchers alone.
LEMMA WatchersRest ==
    ASSUME MemInv, UNCHANGED <<log, watch>>
    PROVE TasksPlaced' /\ StreamHasNoGap' /\ Channels'
<1>1. UNCHANGED <<log, task, root, pos, held, out, open, got, from>>
  BY DEF watch
<1>2. TasksPlaced' /\ Channels'
  BY <1>1 DEF MemInv, TasksPlaced, Channels
<1>3. StreamHasNoGap'
  <2>1. \A w \in Watchers : Handed(w)' = Handed(w) /\ Due(w)' = Due(w)
    BY <1>1 DEF Handed, Due, Covered
  <2>2. \A w \in Watchers : open[w] => InOrder(Handed(w), Due(w), log)
    BY StreamsInOrder DEF MemInv
  <2>3. \A w \in Watchers : open'[w] => InOrder(Handed(w)', Due(w)', log')
    BY <1>1, <2>1, <2>2
  <2> QED BY <2>3 DEF StreamHasNoGap, InOrder, Due
<1> QED BY <1>2, <1>3

LEMMA PutKeeps ==
    ASSUME MemInv, NEW c \in Clients, NEW k \in Keys, NEW e \in Entries, Put(c, k, e)
    PROVE MemInv'
<1>0. PICK kd \in Kinds : kd = IF data[k] = NoEntry THEN "Created" ELSE "Updated"
  BY DEF Kinds
<1>1. /\ Event(kd, k) \in Events
      /\ unsent' = [unsent EXCEPT ![c] = Event(kd, k)] /\ log' = log
      /\ Idle(c) /\ Room /\ UNCHANGED watch
  BY <1>0, EventsDiffer DEF Put
<1>2. TypeOK'
  BY <1>1 DEF MemInv, TypeOK, Put, watch, Contract!Answers, Contract!Ok
<1>3. /\ RoomIsKept'
      /\ Count(kd, k)' = Count(kd, k) + 1
      /\ \A kind \in Kinds, j \in Keys :
            ~(kind = kd /\ j = k) => Count(kind, j)' = Count(kind, j)
  <2>1. TypeOK /\ RoomIsKept
    BY DEF MemInv
  <2> QED BY <1>1, <2>1, ChangeCounts
<1>4. EventsAccountForMap'
  <2> SUFFICES ASSUME NEW j \in Keys
               PROVE Count("Created", j)' - Count("Deleted", j)'
                        = IF data'[j] = NoEntry THEN 0 ELSE 1
    BY DEF EventsAccountForMap
  <2>1. /\ Count("Created", j) - Count("Deleted", j)
              = IF data[j] = NoEntry THEN 0 ELSE 1
        /\ data'[j] = IF j = k THEN e ELSE data[j]
        /\ e # NoEntry
    BY MemoryAssumption DEF MemInv, EventsAccountForMap, TypeOK, Put
  <2>2. Count("Created", j) \in Nat /\ Count("Deleted", j) \in Nat
    BY CountsFinite DEF MemInv, Count, Kinds
  <2>3. /\ Count("Created", j)' = Count("Created", j)
              + IF "Created" = kd /\ j = k THEN 1 ELSE 0
        /\ Count("Deleted", j)' = Count("Deleted", j)
    BY <1>0, <1>3, <2>2 DEF Kinds
  <2> QED BY <1>0, <2>1, <2>2, <2>3
<1> QED BY <1>1, <1>2, <1>3, <1>4, WatchersRest DEF MemInv

LEMMA DeleteKeeps ==
    ASSUME MemInv, NEW c \in Clients, NEW k \in Keys, Delete(c, k)
    PROVE MemInv'
<1>1. /\ Idle(c) /\ Room /\ log' = log /\ UNCHANGED watch
      /\ "Deleted" \in Kinds /\ Event("Deleted", k) \in Events
  BY EventsDiffer DEF Delete, Kinds
<1>2. TypeOK'
  <2>1. /\ Contract!NotFound \in Contract!Answers
        /\ Contract!Ok(NoEntry) \in Contract!Answers
    BY DEF Contract!Answers, Contract!Ok, Contract!NotFound
  <2>3. /\ answer' \in [Clients -> Contract!Answers]
        /\ data' \in [Keys -> Entries \cup {NoEntry}]
    BY <2>1 DEF MemInv, TypeOK, Delete
  <2>2. unsent' \in [Clients -> Events \cup {NoEvent}]
    BY <1>1 DEF MemInv, TypeOK, Delete
  <2> QED BY <1>1, <2>2, <2>3 DEF MemInv, TypeOK, watch
<1>3. CASE data[k] = NoEntry
  <2>1. UNCHANGED <<data, unsent, log>>
    BY <1>1, <1>3 DEF Delete
  <2>2. RoomIsKept'
    BY <2>1 DEF MemInv, RoomIsKept, InFlight
  <2>3. EventsAccountForMap'
    BY <2>1 DEF MemInv, EventsAccountForMap, Count, Sent, Pending
  <2> QED BY <1>1, <1>2, <2>2, <2>3, WatchersRest DEF MemInv
<1>4. CASE data[k] # NoEntry
  <2>1. /\ data' = [data EXCEPT ![k] = NoEntry]
        /\ unsent' = [unsent EXCEPT ![c] = Event("Deleted", k)]
    BY <1>4 DEF Delete
  <2>2. /\ RoomIsKept'
        /\ Count("Deleted", k)' = Count("Deleted", k) + 1
        /\ \A kind \in Kinds, j \in Keys :
              ~(kind = "Deleted" /\ j = k) => Count(kind, j)' = Count(kind, j)
    <3>1. TypeOK /\ RoomIsKept
      BY DEF MemInv
    <3> QED BY <1>1, <2>1, <3>1, ChangeCounts
  <2>3. EventsAccountForMap'
    <3> SUFFICES ASSUME NEW j \in Keys
                 PROVE Count("Created", j)' - Count("Deleted", j)'
                          = IF data'[j] = NoEntry THEN 0 ELSE 1
      BY DEF EventsAccountForMap
    <3>1. /\ Count("Created", j) - Count("Deleted", j)
                = IF data[j] = NoEntry THEN 0 ELSE 1
          /\ data'[j] = IF j = k THEN NoEntry ELSE data[j]
      BY <2>1 DEF MemInv, EventsAccountForMap, TypeOK
    <3>2. Count("Created", j) \in Nat /\ Count("Deleted", j) \in Nat
      BY CountsFinite DEF MemInv, Count, Kinds
    <3>3. /\ Count("Created", j)' = Count("Created", j)
          /\ Count("Deleted", j)' = Count("Deleted", j) + IF j = k THEN 1 ELSE 0
      BY <2>2, <3>2 DEF Kinds
    <3> QED BY <1>4, <3>1, <3>2, <3>3
  <2> QED BY <1>1, <1>2, <2>2, <2>3, WatchersRest DEF MemInv
<1> QED BY <1>3, <1>4

LEMMA GetKeeps ==
    ASSUME MemInv, NEW c \in Clients, NEW k \in Keys, Get(c, k)
    PROVE MemInv'
<1>1. UNCHANGED <<data, unsent, log, watch>>
  BY DEF Get
<1>2. TypeOK'
  BY <1>1 DEF MemInv, TypeOK, Get, watch, Contract!Answers, Contract!Ok, Contract!NotFound
<1>3. RoomIsKept' /\ EventsAccountForMap'
  BY <1>1 DEF MemInv, RoomIsKept, InFlight, EventsAccountForMap, Count, Sent, Pending
<1> QED BY <1>1, <1>2, <1>3, WatchersRest DEF MemInv

\* Sending lengthens the log behind every task.
LEMMA SendKeeps ==
    ASSUME MemInv, NEW c \in Clients, SendEvent(c) PROVE MemInv'
<1>1. /\ unsent[c] # NoEvent /\ log' = Append(log, unsent[c])
      /\ unsent' = [unsent EXCEPT ![c] = NoEvent]
      /\ UNCHANGED <<data, answer, task, root, pos, held, out, open, got, from>>
  BY DEF SendEvent, store, watch
<1>2. /\ RoomIsKept' /\ log' \in Seq(Events) /\ Len(log') = Len(log) + 1
      /\ Len(log') <= MaxEvents
      /\ \A kind \in Kinds, j \in Keys : Count(kind, j)' = Count(kind, j)
  BY <1>1, SendCounts DEF MemInv
<1>3. TypeOK'
  BY <1>1, <1>2 DEF MemInv, TypeOK
<1>4. EventsAccountForMap'
  BY <1>1, <1>2 DEF MemInv, EventsAccountForMap, Kinds
<1>5. log \in Seq(Events) /\ Len(log) \in Nat /\ unsent[c] \in Events
  BY <1>1, LenProperties DEF MemInv, TypeOK
<1>6. TasksPlaced' /\ Channels'
  BY <1>1, <1>2, <1>5 DEF MemInv, TypeOK, TasksPlaced, Channels
<1>7. StreamHasNoGap'
  <2>1. ASSUME NEW w \in Watchers, open[w] PROVE InOrder(Handed(w), Due(w), log)'
    <3>1. InOrder(Handed(w), Due(w), log)
      BY <2>1, StreamsInOrder DEF MemInv
    <3>2. /\ from[w] \in 1..(MaxEvents + 1) /\ pos[w] \in 1..(MaxEvents + 1)
          /\ pos[w] <= Len(log) + 1
      BY DEF MemInv, TypeOK, TasksPlaced
    <3>3. Due(w) \in SUBSET (1..Len(log))
      BY <1>5, <3>2, MemoryAssumption DEF Due, Covered
    <3>4. \A n \in 1..Len(log) : log'[n] = log[n]
      BY <1>1, <1>5, AppendProperties
    <3>5. Due(w)' = Due(w)
      BY <1>1, <1>2, <1>5, <3>2, <3>4, MemoryAssumption DEF Due, Covered
    <3>6. Handed(w)' = Handed(w)
      BY <1>1 DEF Handed
    <3>7. InOrder(Handed(w), Due(w), Append(log, unsent[c]))
      BY <1>5, <3>1, <3>3, GrowthKeepsOrder
    <3>8. InOrder(Handed(w), Due(w), log)' = InOrder(Handed(w)', Due(w)', log')
      BY DEF InOrder
    <3> QED BY <1>1, <3>5, <3>6, <3>7, <3>8
  <2>2. \A w \in Watchers : open'[w] => InOrder(Handed(w), Due(w), log)'
    BY <1>1, <2>1
  <2> QED BY <2>2 DEF StreamHasNoGap, InOrder, Due
<1> QED BY <1>2, <1>3, <1>4, <1>6, <1>7 DEF MemInv

----------------------------------------------------------------------------
(* The watchers' steps.                                                    *)

\* A watcher's step leaves the map, the log and the other watchers alone.
LEMMA StoreRests ==
    ASSUME MemInv, UNCHANGED <<store, unsent, log>>
    PROVE RoomIsKept' /\ EventsAccountForMap'
BY DEF MemInv, store, RoomIsKept, InFlight, EventsAccountForMap, Count, Sent, Pending

LEMMA OneStreamMoves ==
    ASSUME MemInv, UNCHANGED <<log, root>>, NEW w \in Watchers,
           \A v \in Watchers \ {w} :
              /\ task'[v] = task[v] /\ pos'[v] = pos[v] /\ held'[v] = held[v]
              /\ out'[v] = out[v] /\ open'[v] = open[v] /\ got'[v] = got[v]
              /\ from'[v] = from[v],
           open'[w] => InOrder(Handed(w)', Due(w)', log)
    PROVE StreamHasNoGap'
<1>1. \A v \in Watchers \ {w} : Handed(v)' = Handed(v) /\ Due(v)' = Due(v)
  BY DEF Handed, Due, Covered
<1>2. \A v \in Watchers : open[v] => InOrder(Handed(v), Due(v), log)
  BY StreamsInOrder DEF MemInv
<1>3. \A v \in Watchers : open'[v] => InOrder(Handed(v)', Due(v)', log')
  BY <1>1, <1>2
<1> QED BY <1>3 DEF StreamHasNoGap, InOrder, Due

\* What the steps of one watcher rest on.
LEMMA WatcherFacts ==
    ASSUME MemInv, NEW w \in Watchers
    PROVE /\ log \in Seq(Events) /\ Len(log) \in Nat
          /\ got[w] \in Seq(Events) /\ out[w] \in Seq(Events)
          /\ pos[w] \in Nat /\ from[w] \in Nat /\ MaxEvents \in Nat
          /\ 1 <= from[w] /\ from[w] <= pos[w] /\ pos[w] <= Len(log) + 1
          /\ Len(log) <= MaxEvents
          /\ open[w] => InOrder(Handed(w), Due(w), log)
BY StreamsInOrder, LenProperties, MemoryAssumption DEF MemInv, TypeOK, TasksPlaced

LEMMA WatchKeeps ==
    ASSUME MemInv, NEW w \in Watchers, Watch(w) PROVE MemInv'
<1> USE DEF MemInv
<1>1. /\ task[w] = "none" /\ task' = [task EXCEPT ![w] = "recv"]
      /\ pos' = [pos EXCEPT ![w] = Len(log) + 1]
      /\ from' = [from EXCEPT ![w] = Len(log) + 1]
      /\ UNCHANGED <<data, answer, unsent, log, root, held, out, open, got>>
  BY DEF Watch, store
<1>2. TypeOK' /\ Channels'
  BY <1>1, WatcherFacts DEF TypeOK, Channels
<1>3. RoomIsKept' /\ EventsAccountForMap'
  BY <1>1, StoreRests DEF store
<1>4. TasksPlaced'
  BY <1>1, WatcherFacts DEF TypeOK, TasksPlaced
<1>5. StreamHasNoGap'
  <2>1. got[w] = <<>> /\ out[w] = <<>> /\ task'[w] = "recv"
    BY <1>1 DEF TasksPlaced, TypeOK
  <2>2. PICK none \in Seq(Events) : none = <<>>
    BY EmptySeq
  <2>3. Handed(w)' = none \o none \o none
    BY <1>1, <2>1, <2>2 DEF Handed
  <2>4. Handed(w)' = <<>>
    BY <2>2, <2>3, ConcatEmptySeq
  <2>5. from'[w] = Len(log) + 1 /\ pos'[w] = Len(log) + 1 /\ Len(log) \in Nat
    BY <1>1, WatcherFacts DEF TypeOK
  <2>6. Due(w)' = {}
    BY <1>1, <2>5 DEF Due, Covered
  <2>7. InOrder(Handed(w)', Due(w)', log)
    BY <2>4, <2>6, NothingInOrder
  <2> QED BY <1>1, <2>7, OneStreamMoves DEF TypeOK
<1> QED BY <1>2, <1>3, <1>4, <1>5

LEMMA ReceiveKeeps ==
    ASSUME MemInv, NEW w \in Watchers, Receive(w) PROVE MemInv'
<1>0. /\ log \in Seq(Events) /\ Len(log) \in Nat
      /\ got[w] \in Seq(Events) /\ out[w] \in Seq(Events)
      /\ pos[w] \in Nat /\ from[w] \in Nat /\ MaxEvents \in Nat
      /\ 1 <= from[w] /\ from[w] <= pos[w] /\ pos[w] <= Len(log) + 1
      /\ Len(log) <= MaxEvents
      /\ open[w] => InOrder(Handed(w), Due(w), log)
  BY WatcherFacts
<1> USE DEF MemInv
<1>1. task[w] = "recv" /\ UNCHANGED <<data, answer, unsent, log, root, out, open, got, from>>
  BY DEF Receive, store
<1>2. RoomIsKept' /\ EventsAccountForMap' /\ Channels'
  BY <1>1, StoreRests DEF store, Channels
<1>3. CASE Lagged(w)
  <2>1. task' = [task EXCEPT ![w] = "ended"] /\ UNCHANGED <<pos, held>>
    BY <1>3 DEF Receive
  <2>2. TypeOK' /\ TasksPlaced'
    BY <1>1, <2>1 DEF TypeOK, TasksPlaced
  <2>3. Handed(w)' = Handed(w) /\ Due(w)' = Due(w)
    BY <1>1, <2>1 DEF Handed, Due, Covered, TypeOK
  <2>4. StreamHasNoGap'
    BY <1>1, <2>1, <2>3, <1>0, OneStreamMoves DEF TypeOK
  <2> QED BY <1>2, <2>2, <2>4
<1>4. CASE ~Lagged(w)
  <2> DEFINE seen == IsUnder(log[pos[w]].path, root[w])
  <2>1. /\ pos[w] <= Len(log) /\ pos' = [pos EXCEPT ![w] = @ + 1]
        /\ seen => /\ task' = [task EXCEPT ![w] = "send"]
                   /\ held' = [held EXCEPT ![w] = log[pos[w]]]
        /\ ~seen => UNCHANGED <<task, held>>
    BY <1>4 DEF Receive
  <2> HIDE DEF seen
  <2>2. pos[w] \in 1..Len(log) /\ log[pos[w]] \in Events /\ pos'[w] = pos[w] + 1
    BY <2>1, <1>0, ElementOfSeq DEF TypeOK
  <2>3. TypeOK'
    <3>1. pos' \in [Watchers -> 1..(MaxEvents + 1)]
      BY <1>0, <2>1, <2>2 DEF TypeOK
    <3>2. /\ task' \in [Watchers -> {"none", "recv", "send", "ended"}]
          /\ held' \in [Watchers -> Events \cup {NoEvent}]
      BY <2>1, <2>2 DEF TypeOK
    <3> QED BY <1>1, <3>1, <3>2 DEF TypeOK
  <2>4. TasksPlaced'
    BY <1>1, <2>1, <2>2, <1>0 DEF TypeOK, TasksPlaced
  <2>5. ASSUME open[w] PROVE InOrder(Handed(w)', Due(w)', log)
    <3>1. Due(w) \in SUBSET Nat /\ \A n \in Due(w) : n < pos[w]
      BY <1>0 DEF Due, Covered
    <3>2. CASE seen
      <4>1. Due(w)' = Due(w) \cup {pos[w]}
        BY <1>1, <2>2, <3>2, <1>0 DEF Due, Covered, seen
      <4>2. Handed(w) = got[w] \o out[w] \o <<>>
        BY <1>1 DEF Handed
      <4>3. Handed(w)' = got[w] \o out[w] \o <<log[pos[w]]>>
        BY <1>1, <2>1, <3>2 DEF Handed, TypeOK
      <4>4. Handed(w)' = Append(Handed(w), log[pos[w]])
        BY <2>2, <4>2, <4>3, <1>0, ReceiveAddsLast
      <4>5. Handed(w) \in Seq(Events)
        BY <4>2, <1>0, ConcatProperties, EmptySeq
      <4> QED BY <2>2, <2>5, <3>1, <4>1, <4>4, <4>5, <1>0, OneMoreInOrder
    <3>3. CASE ~seen
      <4>1. Due(w)' = Due(w)
        BY <1>1, <2>2, <3>3, <1>0 DEF Due, Covered, seen
      <4>2. Handed(w)' = Handed(w)
        BY <1>1, <2>1, <3>3 DEF Handed
      <4> QED BY <2>5, <4>1, <4>2, <1>0
    <3> QED BY <3>2, <3>3
  <2>6. StreamHasNoGap'
    BY <1>1, <2>1, <2>5, OneStreamMoves DEF TypeOK
  <2> QED BY <1>2, <2>3, <2>4, <2>6
<1> QED BY <1>3, <1>4

LEMMA ForwardKeeps ==
    ASSUME MemInv, NEW w \in Watchers, Forward(w) PROVE MemInv'
<1>0. /\ log \in Seq(Events) /\ Len(log) \in Nat
      /\ got[w] \in Seq(Events) /\ out[w] \in Seq(Events)
      /\ pos[w] \in Nat /\ from[w] \in Nat /\ MaxEvents \in Nat
      /\ 1 <= from[w] /\ from[w] <= pos[w] /\ pos[w] <= Len(log) + 1
      /\ Len(log) <= MaxEvents
      /\ open[w] => InOrder(Handed(w), Due(w), log)
  BY WatcherFacts
<1> USE DEF MemInv
<1>1. /\ task[w] = "send" /\ held[w] \in Events
      /\ held' = [held EXCEPT ![w] = NoEvent]
      /\ UNCHANGED <<data, answer, unsent, log, root, pos, open, got, from>>
  BY DEF Forward, store, TasksPlaced
<1>2. RoomIsKept' /\ EventsAccountForMap'
  BY <1>1, StoreRests DEF store
<1>3. CASE ~open[w]
  <2>1. task' = [task EXCEPT ![w] = "ended"] /\ UNCHANGED out
    BY <1>3 DEF Forward
  <2>2. TypeOK' /\ Channels' /\ TasksPlaced'
    BY <1>1, <2>1 DEF TypeOK, Channels, TasksPlaced
  <2>3. StreamHasNoGap'
    BY <1>1, <1>3, <2>1, OneStreamMoves DEF TypeOK
  <2> QED BY <1>2, <2>2, <2>3
<1>4. CASE open[w]
  <2>1. /\ Len(out[w]) < OutCap /\ task' = [task EXCEPT ![w] = "recv"]
        /\ out' = [out EXCEPT ![w] = Append(@, held[w])]
    BY <1>4 DEF Forward
  <2>2. /\ Append(out[w], held[w]) \in Seq(Events)
        /\ Len(Append(out[w], held[w])) = Len(out[w]) + 1 /\ Len(out[w]) \in Nat
    BY <1>1, <1>0, AppendProperties, LenProperties
  <2>3. TypeOK' /\ Channels' /\ TasksPlaced'
    BY <1>1, <2>1, <2>2, MemoryAssumption DEF TypeOK, Channels, TasksPlaced
  <2>4. Handed(w) = got[w] \o out[w] \o <<held[w]>>
    BY <1>1 DEF Handed
  <2>5. Handed(w)' = got[w] \o Append(out[w], held[w]) \o <<>>
    BY <1>1, <2>1 DEF Handed, TypeOK, Channels
  <2>6. Handed(w)' = Handed(w)
    BY <1>1, <2>4, <2>5, <1>0, ForwardMovesOn
  <2>7. Due(w)' = Due(w)
    BY <1>1 DEF Due, Covered
  <2>8. StreamHasNoGap'
    BY <1>1, <1>4, <2>1, <2>6, <2>7, <1>0, OneStreamMoves DEF TypeOK, Channels
  <2> QED BY <1>2, <2>3, <2>8
<1> QED BY <1>3, <1>4

LEMMA ConsumeKeeps ==
    ASSUME MemInv, NEW w \in Watchers, Consume(w) PROVE MemInv'
<1>0. /\ log \in Seq(Events) /\ Len(log) \in Nat
      /\ got[w] \in Seq(Events) /\ out[w] \in Seq(Events)
      /\ pos[w] \in Nat /\ from[w] \in Nat /\ MaxEvents \in Nat
      /\ 1 <= from[w] /\ from[w] <= pos[w] /\ pos[w] <= Len(log) + 1
      /\ Len(log) <= MaxEvents
      /\ open[w] => InOrder(Handed(w), Due(w), log)
  BY WatcherFacts
<1> USE DEF MemInv
<1>1. /\ open[w] /\ out[w] # <<>>
      /\ got' = [got EXCEPT ![w] = Append(@, Head(out[w]))]
      /\ out' = [out EXCEPT ![w] = Tail(@)]
      /\ UNCHANGED <<data, answer, unsent, log, task, root, pos, held, open, from>>
  BY DEF Consume, store
<1>2. RoomIsKept' /\ EventsAccountForMap'
  BY <1>1, StoreRests DEF store
<1>3. /\ Head(out[w]) \in Events /\ Tail(out[w]) \in Seq(Events)
      /\ Len(Tail(out[w])) = Len(out[w]) - 1 /\ Len(out[w]) \in Nat
      /\ Append(got[w], Head(out[w])) \in Seq(Events)
  BY <1>1, <1>0, HeadTailProperties, AppendProperties, LenProperties
<1>4. TypeOK' /\ Channels'
  BY <1>1, <1>3, MemoryAssumption DEF TypeOK, Channels
<1>5. TasksPlaced'
  BY <1>1 DEF TasksPlaced, Channels
<1>6. StreamHasNoGap'
  <2>1. PICK x \in Seq(Events) : x = IF task[w] = "send" THEN <<held[w]>> ELSE <<>>
    <3>1. CASE task[w] = "send"
      <4>1. <<held[w]>> \in Seq(Events)
        BY <3>1 DEF TasksPlaced
      <4> QED BY <3>1, <4>1
    <3>2. CASE task[w] # "send"
      BY <3>2, EmptySeq
    <3> QED BY <3>1, <3>2
  <2>2. /\ Handed(w) = got[w] \o out[w] \o x
        /\ Handed(w)' = Append(got[w], Head(out[w])) \o Tail(out[w]) \o x
    BY <1>1, <2>1 DEF Handed, Channels
  <2>3. Handed(w)' = Handed(w)
    BY <1>1, <2>2, <1>0, ConsumeMovesOn
  <2>4. Due(w)' = Due(w)
    BY <1>1 DEF Due, Covered
  <2> QED BY <1>1, <2>3, <2>4, <1>0, OneStreamMoves DEF Channels
<1> QED BY <1>2, <1>4, <1>5, <1>6

LEMMA CloseKeeps ==
    ASSUME MemInv, NEW w \in Watchers, Close(w) PROVE MemInv'
<1> USE DEF MemInv
<1>1. /\ task[w] # "none" /\ open' = [open EXCEPT ![w] = FALSE]
      /\ out' = [out EXCEPT ![w] = <<>>]
      /\ UNCHANGED <<data, answer, unsent, log, task, root, pos, held, got, from>>
  BY DEF Close, store
<1>2. RoomIsKept' /\ EventsAccountForMap'
  BY <1>1, StoreRests DEF store
<1>3. PICK none \in Seq(Events) : none = <<>> /\ Len(none) = 0
  BY EmptySeq
<1>4. TypeOK' /\ Channels' /\ TasksPlaced'
  BY <1>1, <1>3, MemoryAssumption DEF TypeOK, Channels, TasksPlaced
<1>5. StreamHasNoGap'
  BY <1>1, OneStreamMoves DEF TypeOK, Channels
<1> QED BY <1>2, <1>4, <1>5

LEMMA MemInvariant == Spec => []MemInv
<1>1. MemInv /\ [Next]_vars => MemInv'
  <2> SUFFICES ASSUME MemInv, [Next]_vars PROVE MemInv'
    OBVIOUS
  <2>1. CASE UNCHANGED vars
    <3>1. UNCHANGED <<store, unsent, log, watch>> /\ UNCHANGED <<data, answer>>
      BY <2>1 DEF vars, store
    <3>2. TypeOK'
      BY <3>1 DEF MemInv, TypeOK, watch
    <3> QED BY <3>1, <3>2, StoreRests, WatchersRest DEF MemInv
  <2> QED BY <2>1, PutKeeps, DeleteKeeps, GetKeeps, SendKeeps, WatchKeeps,
             ReceiveKeeps, ForwardKeeps, ConsumeKeeps, CloseKeeps DEF Next
<1> QED BY <1>1, MemInitial, PTL DEF Spec

----------------------------------------------------------------------------
(* Listings.                                                               *)

Rest(d, k) == SubSeq(k, Len(d) + 1, Len(k))

\* The segments of the stored paths, and the empty one behind a slash.
SegmentsOf(k) == {k[i] : i \in 1..Len(k)}
Segments == {Slash} \cup UNION {SegmentsOf(k) : k \in Keys}

LEMMA PathsAreSegments == Slash \in Segments /\ Keys \subseteq Seq(Segments)
<1>1. Slash \in Segments
  BY DEF Segments
<1>2. ASSUME NEW k \in Keys PROVE k \in Seq(Segments)
  <2>1. k \in [1..Len(k) -> STRING] /\ Len(k) \in Nat
    BY MemoryAssumption, LenProperties
  <2>2. \A i \in 1..Len(k) : k[i] \in Segments
    <3>1. SegmentsOf(k) \subseteq Segments
      BY DEF Segments
    <3>2. \A i \in 1..Len(k) : k[i] \in SegmentsOf(k)
      BY DEF SegmentsOf
    <3> QED BY <3>1, <3>2
  <2>3. k \in [1..Len(k) -> Segments]
    BY <2>1, <2>2
  <2>4. Seq(Segments) = UNION {[1..n -> Segments] : n \in Nat}
    BY SeqDef
  <2> QED BY <2>1, <2>3, <2>4
<1> QED BY <1>1, <1>2

\* A path below a directory is the directory followed by the rest.
LEMMA PathSplits ==
    ASSUME NEW d \in Seq(Segments), NEW k \in Seq(Segments),
           IsPrefix(d, k), Len(k) > Len(d)
    PROVE /\ Rest(d, k) \in Seq(Segments)
          /\ Len(Rest(d, k)) = Len(k) - Len(d) /\ Len(Rest(d, k)) \in Nat \ {0}
          /\ d \o Rest(d, k) = k
          /\ IsPrefix(d \o <<Rest(d, k)[1]>>, k)
<1>1. Len(d) \in Nat /\ Len(k) \in Nat
  BY LenProperties
<1> DEFINE r == Rest(d, k)
<1>2. /\ r \in Seq(Segments) /\ Len(r) = Len(k) - Len(d)
      /\ \A j \in 1..Len(r) : r[j] = k[Len(d) + j]
  <2>1. Len(d) + 1 \in 1..(Len(k) + 1) /\ Len(k) \in (Len(d) + 1 - 1)..Len(k)
    BY <1>1
  <2>2. \A j \in (Len(d) + 1)..Len(k) : k[j] \in Segments
    BY <1>1, ElementOfSeq
  <2> QED BY <1>1, <2>1, <2>2, SubSeqProperties DEF Rest
<1>3. \A j \in 1..Len(d) : d[j] = k[j]
  <2>1. SubSeq(d, 1, Len(d)) = SubSeq(k, 1, Len(d))
    BY DEF IsPrefix
  <2>2. \A j \in 1..Len(d) : SubSeq(d, 1, Len(d))[j] = d[j] /\ SubSeq(k, 1, Len(d))[j] = k[j]
    BY <1>1
  <2> QED BY <2>1, <2>2
<1> HIDE DEF r
<1>4. d \o r = k
  <2>1. /\ d \o r \in Seq(Segments) /\ Len(d \o r) = Len(k)
        /\ \A j \in 1..Len(k) : (d \o r)[j] = IF j <= Len(d) THEN d[j] ELSE r[j - Len(d)]
    BY <1>1, <1>2, ConcatProperties
  <2>2. ASSUME NEW j \in 1..Len(k) PROVE (d \o r)[j] = k[j]
    <3>1. CASE j <= Len(d)
      BY <1>1, <1>3, <2>1, <3>1
    <3>2. CASE ~(j <= Len(d))
      <4>1. j - Len(d) \in 1..Len(r) /\ Len(d) + (j - Len(d)) = j
        BY <1>1, <1>2, <3>2
      <4>2. r[j - Len(d)] = k[j]
        BY <1>2, <4>1
      <4> QED BY <2>1, <3>2, <4>2
    <3> QED BY <3>1, <3>2
  <2> QED BY <2>1, <2>2, SeqEqual
<1>5. IsPrefix(d \o <<r[1]>>, k)
  <2>1. r[1] \in Segments /\ r[1] = k[Len(d) + 1]
    BY <1>1, <1>2, ElementOfSeq
  <2> DEFINE s == d \o <<r[1]>>
  <2>2. /\ s \in Seq(Segments) /\ Len(s) = Len(d) + 1
        /\ \A j \in 1..(Len(d) + 1) : s[j] = k[j]
    BY <1>1, <1>3, <2>1
  <2> HIDE DEF s
  <2>3. Len(s) <= Len(k) /\ SubSeq(s, 1, Len(s)) = SubSeq(k, 1, Len(s))
    BY <1>1, <2>2
  <2>4. IsPrefix(s, k)
    BY <2>3 DEF IsPrefix
  <2> QED BY <2>4 DEF s
<1> QED BY <1>1, <1>2, <1>4, <1>5 DEF r

LEMMA TrimmedContainer ==
    ASSUME NEW d \in Seq(Segments)
    PROVE /\ d \o <<Slash>> \in Seq(Segments)
          /\ Trimmed(d \o <<Slash>>) = d
<1> DEFINE dir == d \o <<Slash>>
<1>0. PICK one \in Seq(Segments) : one = <<Slash>> /\ Len(one) = 1 /\ one[1] = Slash
  <2>1. <<Slash>> \in Seq(Segments) /\ Len(<<Slash>>) = 1 /\ <<Slash>>[1] = Slash
    BY PathsAreSegments
  <2> QED BY <2>1
<1>1. /\ Len(d) \in Nat /\ dir \in Seq(Segments) /\ Len(dir) = Len(d) + 1
      /\ \A j \in 1..(Len(d) + 1) : dir[j] = IF j <= Len(d) THEN d[j] ELSE one[j - Len(d)]
  BY <1>0, LenProperties, ConcatProperties
<1>2. dir[Len(d) + 1] = Slash /\ \A j \in 1..Len(d) : dir[j] = d[j]
  <2>1. Len(d) + 1 \in 1..(Len(d) + 1) /\ ~(Len(d) + 1 <= Len(d)) /\ Len(d) + 1 - Len(d) = 1
    BY <1>1
  <2>2. dir[Len(d) + 1] = one[1]
    BY <1>1, <2>1
  <2>3. \A j \in 1..Len(d) : j \in 1..(Len(d) + 1) /\ j <= Len(d)
    BY <1>1
  <2> QED BY <1>0, <1>1, <2>2, <2>3
<1> HIDE DEF dir
<1>3. /\ Front(dir) \in Seq(Segments) /\ Len(Front(dir)) = Len(d)
      /\ \A j \in 1..Len(d) : Front(dir)[j] = dir[j]
  <2>1. SubSeq(dir, 1, Len(dir) - 1) = SubSeq(dir, 1, Len(d))
    BY <1>1
  <2>2. /\ SubSeq(dir, 1, Len(d)) \in Seq(Segments)
        /\ Len(SubSeq(dir, 1, Len(d))) = Len(d)
        /\ \A j \in 1..Len(d) : SubSeq(dir, 1, Len(d))[j] = dir[j]
    BY <1>1, ElementOfSeq
  <2> QED BY <2>1, <2>2 DEF Front
<1>4. Front(dir) = d
  BY <1>2, <1>3, SeqEqual
<1>5. Trimmed(dir) = d
  BY <1>1, <1>2, <1>4 DEF Trimmed, Last
<1> QED BY <1>1, <1>5 DEF dir

\* A name listed: a document, or a container with its trailing slash.
LEMMA NameShapes ==
    ASSUME NEW x \in Segments
    PROVE /\ Last(<<x, Slash>>) = Slash /\ Front(<<x, Slash>>) = <<x>>
          /\ Trimmed(<<x, Slash>>) = <<x>> /\ Len(<<x>>) = 1
          /\ Last(<<x>>) = x
          /\ x # Slash => Trimmed(<<x>>) = <<x>>
<1>1. /\ Last(<<x, Slash>>) = Slash /\ Last(<<x>>) = x /\ Len(<<x>>) = 1
  BY DEF Last
<1>2. Front(<<x, Slash>>) = <<x>>
  <2>1. PICK two \in Seq(Segments) : two = <<x, Slash>> /\ Len(two) = 2 /\ two[1] = x
    <3>1. <<x, Slash>> \in Seq(Segments) /\ Len(<<x, Slash>>) = 2 /\ <<x, Slash>>[1] = x
      BY PathsAreSegments
    <3> QED BY <3>1
  <2>2. SubSeq(two, 1, 1) \in Seq(Segments) /\ Len(SubSeq(two, 1, 1)) = 1
        /\ SubSeq(two, 1, 1)[1] = x
    BY <2>1
  <2>3. SubSeq(two, 1, 1) = <<x>>
    <3>1. <<x>> \in Seq(Segments) /\ Len(<<x>>) = 1 /\ <<x>>[1] = x
      OBVIOUS
    <3>2. PICK a \in Seq(Segments), b \in Seq(Segments) :
              a = SubSeq(two, 1, 1) /\ b = <<x>> /\ Len(a) = 1 /\ Len(b) = 1 /\ a[1] = b[1]
      BY <2>2, <3>1
    <3>3. \A j \in 1..Len(a) : a[j] = b[j]
      BY <3>2
    <3>4. a = b
      BY <3>2, <3>3, SeqEqual
    <3> QED BY <3>2, <3>4
  <2> QED BY <2>1, <2>3 DEF Front
<1> QED BY <1>1, <1>2 DEF Trimmed

LEMMA ListingExact == ListingFindsExactlyStored
<1> SUFFICES ASSUME NEW dir \in Containers
             PROVE LET d == Trimmed(dir)
                       stored == {k \in Keys : data[k] # NoEntry}
                   IN /\ \A k \in stored :
                            (IsPrefix(d, k) /\ Len(k) > Len(d) /\ k # dir) =>
                                \E n \in List(dir) : IF Last(n) = Slash
                                                    THEN IsPrefix(d \o Front(n), k)
                                                    ELSE d \o n = k
                      /\ \A n \in List(dir) :
                            /\ Len(Trimmed(n)) = 1
                            /\ \E k \in stored : IF Last(n) = Slash
                                                THEN /\ IsPrefix(d \o Front(n), k)
                                                     /\ Len(k) > Len(d) + 1
                                                ELSE d \o n = k
  BY DEF ListingFindsExactlyStored
<1> DEFINE d == Trimmed(dir)
           stored == {k \in Keys : data[k] # NoEntry}
           below == {k \in Keys : /\ data[k] # NoEntry
                                  /\ Len(k) > Len(d) /\ IsPrefix(d, k)}
           name(r) == IF Len(r) = 1 THEN r ELSE <<r[1], Slash>>
<1>1. d \in Seq(Segments) /\ dir = d \o <<Slash>>
  <2>0. PICK k \in Keys : \E i \in 1..Len(k) : dir = SubSeq(k, 1, i - 1) \o <<Slash>>
    BY DEF Containers
  <2>1. PICK i \in 1..Len(k) : dir = SubSeq(k, 1, i - 1) \o <<Slash>>
    BY <2>0
  <2>2. SubSeq(k, 1, i - 1) \in Seq(Segments)
    BY PathsAreSegments
  <2> QED BY <2>1, <2>2, TrimmedContainer
<1>2. List(dir) = {name(r) : r \in {Rest(d, k) : k \in below} \ {<<Slash>>}}
  BY DEF List, Rest
<1> HIDE DEF d
<1>3. ASSUME NEW k \in below, k # dir
      PROVE /\ name(Rest(d, k)) \in List(dir)
            /\ IF Last(name(Rest(d, k))) = Slash
               THEN /\ IsPrefix(d \o Front(name(Rest(d, k))), k)
                    /\ Len(k) > Len(d) + 1
               ELSE d \o name(Rest(d, k)) = k
            /\ Len(Trimmed(name(Rest(d, k)))) = 1
  <2> DEFINE r == Rest(d, k)
  <2>1. k \in Seq(Segments) /\ IsPrefix(d, k) /\ Len(k) > Len(d)
    BY PathsAreSegments
  <2>2. /\ r \in Seq(Segments) /\ Len(r) = Len(k) - Len(d) /\ Len(r) \in Nat \ {0}
        /\ d \o r = k /\ IsPrefix(d \o <<r[1]>>, k)
    BY <1>1, <2>1, PathSplits
  <2>3. Len(k) \in Nat /\ Len(d) \in Nat
    BY <1>1, <2>1, LenProperties
  <2> HIDE DEF r
  <2>4. r # <<Slash>>
    BY <1>1, <1>3, <2>2
  <2>5. name(r) \in List(dir)
    BY <1>2, <2>4 DEF r
  <2>6. r[1] \in Segments
    BY <2>2, ElementOfSeq
  <2>7. CASE Len(r) = 1
    <3>1. r = <<r[1]>>
      BY <2>2, <2>7
    <3>2. r[1] # Slash
      BY <2>4, <3>1
    <3> QED BY <2>2, <2>5, <2>6, <2>7, <3>1, <3>2, NameShapes DEF r
  <2>8. CASE Len(r) # 1
    <3>1. name(r) = <<r[1], Slash>> /\ Len(k) > Len(d) + 1
      BY <2>2, <2>3, <2>8
    <3> QED BY <2>2, <2>5, <2>6, <3>1, NameShapes DEF r
  <2> QED BY <2>7, <2>8
<1>4. ASSUME NEW k \in stored, IsPrefix(d, k), Len(k) > Len(d), k # dir
      PROVE \E n \in List(dir) : IF Last(n) = Slash THEN IsPrefix(d \o Front(n), k)
                                                ELSE d \o n = k
  <2>1. k \in below
    BY <1>4
  <2> HIDE DEF below, name
  <2> QED BY <1>3, <1>4, <2>1
<1>5. ASSUME NEW n \in List(dir)
      PROVE /\ Len(Trimmed(n)) = 1
            /\ \E k \in stored : IF Last(n) = Slash
                                THEN IsPrefix(d \o Front(n), k) /\ Len(k) > Len(d) + 1
                                ELSE d \o n = k
  <2>1. PICK k \in below : n = name(Rest(d, k)) /\ Rest(d, k) # <<Slash>>
    <3> HIDE DEF below, name
    <3> QED BY <1>2
  <2>2. k \in Seq(Segments) /\ IsPrefix(d, k) /\ Len(k) > Len(d) /\ k \in stored
    BY PathsAreSegments
  <2>3. k # dir
    <3>1. SUFFICES ASSUME k = dir PROVE FALSE
      OBVIOUS
    <3>2. /\ Rest(d, k) \in Seq(Segments) /\ Len(Rest(d, k)) = Len(k) - Len(d)
          /\ d \o Rest(d, k) = k
      BY <1>1, <2>2, PathSplits
    <3>3. <<Slash>> \in Seq(Segments)
      BY PathsAreSegments
    <3>4. Rest(d, k) = <<Slash>>
      BY <1>1, <3>1, <3>2, <3>3, ConcatSimplifications
    <3> QED BY <2>1, <3>4
  <2> HIDE DEF below, name, stored
  <2> QED BY <1>3, <2>1, <2>2, <2>3
<1> QED BY <1>4, <1>5 DEF d

----------------------------------------------------------------------------
(* The results.                                                            *)

\* The events sent and about to be sent account for the map, however puts,
\* deletes and their delayed sends interleave.
THEOREM EventsAccount == Spec => []EventsAccountForMap
BY MemInvariant, PTL DEF MemInv

\* No watcher's stream skips, repeats or reorders an event under its root,
\* whatever the capacity of the ring and of its channel.
THEOREM StreamsHaveNoGap == Spec => []StreamHasNoGap
BY MemInvariant, PTL DEF MemInv

\* Readers are shown the truth: the state is well typed, the events account
\* for the map, streams have no gap and listings lead to exactly what is stored.
THEOREM ReadersAreSound == Spec => []ReadersSound
<1>1. MemInv => ReadersSound
  BY ListingExact DEF MemInv, ReadersSound
<1> QED BY <1>1, MemInvariant, PTL
=============================================================================
