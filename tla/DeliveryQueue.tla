--------------------------- MODULE DeliveryQueue ---------------------------
(***************************************************************************)
(* Federated delivery of the ActivityPub crate: handle_outbox (outbox.rs)    *)
(* records an activity and enqueues one row per follower inbox; workers      *)
(* (delivery.rs) drain the durable delivery_queue table (store.rs).          *)
(*                                                                         *)
(* Every call on the store is one SQL statement and one action here; nothing *)
(* groups two of them in a transaction.  The tables survive a crash, the     *)
(* submissions and workers in progress do not.                               *)
(***************************************************************************)
EXTENDS Integers, FiniteSets

CONSTANTS
    Activities,      \* activity ids
    Inboxes,         \* remote inbox URLs
    BadInboxes,      \* the ones sign_request cannot parse: no URL, or no host
    Workers,         \* concurrent callers of drain_once
    MaxAttempts,     \* MAX_ATTEMPTS, the length of BACKOFF_SECONDS
    MaxSubmissions,  \* bound: calls that enqueue rows
    MaxFaults        \* bound: crashes and failed store calls

ASSUME DeliveryAssumption ==
    /\ BadInboxes \subseteq Inboxes
    /\ MaxAttempts \in Nat \ {0}
    /\ MaxSubmissions \in Nat /\ MaxFaults \in Nat
    /\ IsFiniteSet(Workers)

VARIABLES
    followers,    \* inboxes of the followers table (SELECT DISTINCT inbox)
    outbox,       \* delivery_state per activity, "absent" without a row
    queue,        \* rows of delivery_queue
    nextId,       \* AUTOINCREMENT of delivery_queue
    sub,          \* program counter of handle_outbox per activity
    remaining,    \* inboxes handle_outbox still has to enqueue
    pc,           \* program counter of drain_once per worker
    item,         \* the DeliveryItem the worker read, as it was then
    submissions, faults,
    delivered,    \* history: <<activity, inbox>> answered 2xx
    refused,      \* history: <<activity, inbox>> given up on
    settled,      \* history: row ids with a final outcome
    posts,        \* history: POSTs sent per row id
    fresh         \* history: rows inserted since the activity was recorded

tables == <<followers, outbox, queue, nextId>>
history == <<delivered, refused, settled, posts, fresh>>
vars == <<tables, sub, remaining, pc, item, submissions, faults, history>>

NoItem == [qid |-> 0]
RowIds == 1..(MaxSubmissions * (Cardinality(Inboxes) + 1))
Rows == [qid : Nat, act : Activities, inbox : Inboxes, attempts : Nat,
         due : BOOLEAN]
OutboxStates == {"absent", "pending", "delivered", "failed"}
WorkerSteps == {"idle", "load", "send", "drop_orphan", "drop_delivered",
                "drop_failed", "mark_delivered", "mark_failed", "reschedule"}

\* The tables hold what their columns allow, in particular the three states of
\* an outbox row.
TypeOK ==
    /\ followers \subseteq Inboxes
    /\ outbox \in [Activities -> OutboxStates]
    /\ queue \subseteq Rows
    /\ nextId \in Nat \ {0}
    /\ sub \in [Activities -> {"idle", "recorded", "fanout"}]
    /\ remaining \in [Activities -> SUBSET Inboxes]
    /\ pc \in [Workers -> WorkerSteps]
    /\ item \in [Workers -> Rows \cup {NoItem}]
    /\ submissions \in Nat /\ faults \in Nat
    /\ delivered \subseteq Activities \X Inboxes
    /\ refused \subseteq Activities \X Inboxes
    /\ settled \subseteq Nat
    /\ fresh \in [Activities -> SUBSET Nat]

Init ==
    /\ followers = {}
    /\ outbox = [a \in Activities |-> "absent"]
    /\ queue = {}
    /\ nextId = 1
    /\ sub = [a \in Activities |-> "idle"]
    /\ remaining = [a \in Activities |-> {}]
    /\ pc = [w \in Workers |-> "idle"]
    /\ item = [w \in Workers |-> NoItem]
    /\ submissions = 0 /\ faults = 0
    /\ delivered = {} /\ refused = {} /\ settled = {}
    /\ posts = [q \in RowIds |-> 0]
    /\ fresh = [a \in Activities |-> {}]

-----------------------------------------------------------------------------
(* Followers, as the inbox handler adds and removes them. *)

AddFollower(i) ==
    /\ followers' = followers \cup {i}
    /\ UNCHANGED <<outbox, queue, nextId, sub, remaining, pc, item,
                   submissions, faults, history>>

RemoveFollower(i) ==
    /\ i \in followers
    /\ followers' = followers \ {i}
    /\ UNCHANGED <<outbox, queue, nextId, sub, remaining, pc, item,
                   submissions, faults, history>>

-----------------------------------------------------------------------------
(* handle_outbox *)

\* record_outbox: INSERT OR REPLACE, so resubmitting an id resets its state.
RecordOutbox(a) ==
    /\ sub[a] = "idle"
    /\ submissions < MaxSubmissions
    /\ submissions' = submissions + 1
    /\ outbox' = [outbox EXCEPT ![a] = "pending"]
    /\ sub' = [sub EXCEPT ![a] = "recorded"]
    /\ fresh' = [fresh EXCEPT ![a] = {}]
    /\ UNCHANGED <<followers, queue, nextId, remaining, pc, item, faults,
                   delivered, refused, settled, posts>>

\* The targets: targetInbox of a Follow (if any), else the follower inboxes.
ResolveTargets(a) ==
    /\ sub[a] = "recorded"
    /\ sub' = [sub EXCEPT ![a] = "fanout"]
    /\ \E targets \in {followers, {}} \cup {{i} : i \in Inboxes} :
          remaining' = [remaining EXCEPT ![a] = targets]
    /\ UNCHANGED <<tables, pc, item, submissions, faults, history>>

\* enqueue_delivery: INSERT with attempts 0, due now.
InsertRow(a, i) ==
    /\ queue' = queue \cup {[qid |-> nextId, act |-> a, inbox |-> i,
                             attempts |-> 0, due |-> TRUE]}
    /\ nextId' = nextId + 1
    /\ fresh' = [fresh EXCEPT ![a] = @ \cup {nextId}]

EnqueueDelivery(a, i) ==
    /\ sub[a] = "fanout"
    /\ i \in remaining[a]
    /\ InsertRow(a, i)
    /\ remaining' = [remaining EXCEPT ![a] = @ \ {i}]
    /\ UNCHANGED <<followers, outbox, sub, pc, item, submissions, faults,
                   delivered, refused, settled, posts>>

\* handle_outbox returns once every target has a row.
FinishOutbox(a) ==
    /\ sub[a] = "fanout"
    /\ remaining[a] = {}
    /\ sub' = [sub EXCEPT ![a] = "idle"]
    /\ UNCHANGED <<tables, remaining, pc, item, submissions, faults, history>>

\* DeliveryWorker::enqueue_to_inboxes with one inbox: no outbox row is required.
EnqueueToInboxes(a, i) ==
    /\ submissions < MaxSubmissions
    /\ submissions' = submissions + 1
    /\ InsertRow(a, i)
    /\ UNCHANGED <<followers, outbox, sub, remaining, pc, item, faults,
                   delivered, refused, settled, posts>>

-----------------------------------------------------------------------------
(* DeliveryWorker::drain_once *)

\* Mutant of Due: only rows that were never tried are selected.
DueFirstTries == {r \in queue : r.due /\ r.attempts = 0}

\* The rows whose next_retry has come.
Due == {r \in queue : r.due}

\* Mutant of NextDueDelivery: the row is popped off the table when it is read.
PopDueDelivery(w) ==
    /\ pc[w] = "idle"
    /\ \E r \in Due :
          /\ \A s \in Due : r.qid <= s.qid
          /\ item' = [item EXCEPT ![w] = r]
          /\ queue' = queue \ {r}
    /\ pc' = [pc EXCEPT ![w] = "load"]
    /\ UNCHANGED <<followers, outbox, nextId, sub, remaining, submissions,
                   faults, history>>

\* next_due_delivery: SELECT ... ORDER BY id LIMIT 1.  The row is not claimed.
NextDueDelivery(w) ==
    /\ pc[w] = "idle"
    /\ \E r \in Due :
          /\ \A s \in Due : r.qid <= s.qid
          /\ item' = [item EXCEPT ![w] = r]
    /\ pc' = [pc EXCEPT ![w] = "load"]
    /\ UNCHANGED <<tables, sub, remaining, submissions, faults, history>>

Return(w) ==
    /\ pc' = [pc EXCEPT ![w] = "idle"]
    /\ item' = [item EXCEPT ![w] = NoItem]

\* load_activity, then sign_request: an orphaned row is dropped, an inbox that
\* cannot be signed for is an error that leaves the row as it is.
LoadActivity(w) ==
    /\ pc[w] = "load"
    /\ \/ /\ outbox[item[w].act] = "absent"
          /\ pc' = [pc EXCEPT ![w] = "drop_orphan"]
          /\ settled' = settled \cup {item[w].qid}
          /\ UNCHANGED item
       \/ /\ outbox[item[w].act] # "absent"
          /\ item[w].inbox \in BadInboxes
          /\ Return(w)
          /\ UNCHANGED settled
       \/ /\ outbox[item[w].act] # "absent"
          /\ item[w].inbox \notin BadInboxes
          /\ pc' = [pc EXCEPT ![w] = "send"]
          /\ UNCHANGED <<item, settled>>
    /\ UNCHANGED <<tables, sub, remaining, submissions, faults, delivered,
                   refused, posts, fresh>>

Posted(w) == posts' = [posts EXCEPT ![item[w].qid] = @ + 1]
Target(w) == <<item[w].act, item[w].inbox>>

\* Mutant of Exhausted: off by one.
ExhaustedOneLate(r) == r.attempts + 1 > MaxAttempts

\* The give-up test, on the attempts the worker read.
Exhausted(r) == r.attempts + 1 >= MaxAttempts

\* The answer to the POST: 2xx, a permanent 4xx, or anything transient
\* (5xx, 408, 429, no answer).
SendSucceeds(w) ==
    /\ pc[w] = "send"
    /\ pc' = [pc EXCEPT ![w] = "drop_delivered"]
    /\ Posted(w)
    /\ delivered' = delivered \cup {Target(w)}
    /\ settled' = settled \cup {item[w].qid}
    /\ UNCHANGED <<tables, sub, remaining, item, submissions, faults, refused,
                   fresh>>

SendRefused(w) ==
    /\ pc[w] = "send"
    /\ pc' = [pc EXCEPT ![w] = "drop_failed"]
    /\ Posted(w)
    /\ refused' = refused \cup {Target(w)}
    /\ settled' = settled \cup {item[w].qid}
    /\ UNCHANGED <<tables, sub, remaining, item, submissions, faults, delivered,
                   fresh>>

SendFails(w) ==
    /\ pc[w] = "send"
    /\ Posted(w)
    /\ \/ /\ Exhausted(item[w])
          /\ pc' = [pc EXCEPT ![w] = "drop_failed"]
          /\ refused' = refused \cup {Target(w)}
          /\ settled' = settled \cup {item[w].qid}
       \/ /\ ~Exhausted(item[w])
          /\ pc' = [pc EXCEPT ![w] = "reschedule"]
          /\ UNCHANGED <<refused, settled>>
    /\ UNCHANGED <<tables, sub, remaining, item, submissions, faults, delivered,
                   fresh>>

\* Mutant of DropDelivery: a row that failed is dropped without a mark.
DropSilently(w) ==
    /\ pc[w] \in {"drop_orphan", "drop_delivered", "drop_failed"}
    /\ queue' = {r \in queue : r.qid # item[w].qid}
    /\ \/ pc[w] # "drop_delivered" /\ Return(w)
       \/ /\ pc[w] = "drop_delivered"
          /\ pc' = [pc EXCEPT ![w] = "mark_delivered"]
          /\ UNCHANGED item
    /\ UNCHANGED <<followers, outbox, nextId, sub, remaining, submissions,
                   faults, history>>

\* drop_delivery: DELETE by id; a row that is already gone is no error.
DropDelivery(w) ==
    /\ pc[w] \in {"drop_orphan", "drop_delivered", "drop_failed"}
    /\ queue' = {r \in queue : r.qid # item[w].qid}
    /\ \/ pc[w] = "drop_orphan" /\ Return(w)
       \/ /\ pc[w] = "drop_delivered"
          /\ pc' = [pc EXCEPT ![w] = "mark_delivered"]
          /\ UNCHANGED item
       \/ /\ pc[w] = "drop_failed"
          /\ pc' = [pc EXCEPT ![w] = "mark_failed"]
          /\ UNCHANGED item
    /\ UNCHANGED <<followers, outbox, nextId, sub, remaining, submissions,
                   faults, history>>

\* mark_outbox_state: UPDATE by activity id, whatever the other rows say.
MarkOutboxState(w) ==
    /\ pc[w] \in {"mark_delivered", "mark_failed"}
    /\ outbox' = [outbox EXCEPT ![item[w].act] =
                    IF @ = "absent" THEN "absent"
                    ELSE IF pc[w] = "mark_delivered" THEN "delivered"
                    ELSE "failed"]
    /\ Return(w)
    /\ UNCHANGED <<followers, queue, nextId, sub, remaining, submissions,
                   faults, history>>

\* reschedule_delivery: UPDATE ... attempts = attempts + 1, due later; no row,
\* no effect.
RescheduleDelivery(w) ==
    /\ pc[w] = "reschedule"
    /\ queue' = {IF r.qid = item[w].qid
                 THEN [r EXCEPT !.attempts = @ + 1, !.due = FALSE]
                 ELSE r : r \in queue}
    /\ Return(w)
    /\ UNCHANGED <<followers, outbox, nextId, sub, remaining, submissions,
                   faults, history>>

\* The backoff delay of a row is over.
BackoffOver(r) ==
    /\ r \in queue /\ ~r.due
    /\ queue' = (queue \ {r}) \cup {[r EXCEPT !.due = TRUE]}
    /\ UNCHANGED <<followers, outbox, nextId, sub, remaining, pc, item,
                   submissions, faults, history>>

-----------------------------------------------------------------------------
(* Faults *)

\* A store call of a worker fails: drain_once returns the error, run() sleeps.
StoreError(w) ==
    /\ pc[w] \notin {"idle", "send"}
    /\ faults < MaxFaults
    /\ faults' = faults + 1
    /\ Return(w)
    /\ UNCHANGED <<tables, sub, remaining, submissions, history>>

\* The process stops and restarts: the tables are all that is left.
Crash ==
    /\ faults < MaxFaults
    /\ faults' = faults + 1
    /\ sub' = [a \in Activities |-> "idle"]
    /\ remaining' = [a \in Activities |-> {}]
    /\ pc' = [w \in Workers |-> "idle"]
    /\ item' = [w \in Workers |-> NoItem]
    /\ UNCHANGED <<tables, submissions, history>>

SubmitStep(a) ==
    \/ ResolveTargets(a)
    \/ \E i \in Inboxes : EnqueueDelivery(a, i)
    \/ FinishOutbox(a)

DrainStep(w) ==
    \/ NextDueDelivery(w) \/ LoadActivity(w)
    \/ SendSucceeds(w) \/ SendRefused(w) \/ SendFails(w)
    \/ DropDelivery(w) \/ MarkOutboxState(w) \/ RescheduleDelivery(w)

Next ==
    \/ \E i \in Inboxes : AddFollower(i) \/ RemoveFollower(i)
    \/ \E a \in Activities : RecordOutbox(a) \/ SubmitStep(a)
    \/ \E a \in Activities, i \in Inboxes : EnqueueToInboxes(a, i)
    \/ \E w \in Workers : DrainStep(w) \/ StoreError(w)
    \/ \E r \in queue : BackoffOver(r)
    \/ Crash

Spec == Init /\ [][Next]_vars

\* run() keeps draining, a request answers or times out, backoffs end.
FairSpec ==
    /\ Spec
    /\ \A w \in Workers : WF_vars(DrainStep(w))
    /\ \A a \in Activities : WF_vars(SubmitStep(a))
    /\ WF_vars(\E r \in queue : BackoffOver(r))

-----------------------------------------------------------------------------
InQueue(q) == \E r \in queue : r.qid = q

\* outbox.rs: "we queue with retry so restarts don't drop signed deliveries".
\* A row that was inserted stays until a worker saw a final outcome for it,
\* whatever crashes, failed statements and concurrent workers do.
NoRowLost == \A q \in 1..(nextId - 1) : InQueue(q) \/ q \in settled

\* MAX_ATTEMPTS bounds the POSTs for one row.  Each further worker can add two
\* (one more reschedule past the limit, one more POST on the last try), and
\* each fault can hide one POST per worker from the counter.
PostsBounded ==
    LET workers == Cardinality(Workers)
    IN  \A q \in RowIds :
            posts[q] <= MaxAttempts + 2 * (workers - 1) + faults * workers

\* delivery_state never claims an outcome that no inbox produced.
StateHasWitness ==
    \A a \in Activities :
        /\ outbox[a] = "delivered" => \E i \in Inboxes : <<a, i>> \in delivered
        /\ outbox[a] = "failed" => \E i \in Inboxes : <<a, i>> \in refused

\* delivery.rs: "2xx -> drop from queue, mark outbox delivered".  Without faults
\* an activity that had a row since it was recorded and has none left, in the table or in the hands
\* of a worker or submission, is no longer pending.
SettledIsMarked ==
    \A a \in Activities :
        (/\ faults = 0
         /\ outbox[a] = "pending" /\ sub[a] = "idle"
         /\ \A r \in queue : r.act # a
         /\ \A w \in Workers : pc[w] # "idle" => item[w].act # a)
        => fresh[a] = {}

\* Both sides of it: no outcome without a witness, none left unrecorded.
OutcomeRecorded == TypeOK /\ StateHasWitness /\ SettledIsMarked

\* A row whose inbox cannot be signed for makes drain_once return before it
\* touches the row, and the row stays first in the queue.
Poisoned(q) == \E r \in queue : r.qid < q /\ r.inbox \in BadInboxes

\* delivery.rs on run: "calls drain_once until the queue is empty, then sleeps".
\* Every row whose inbox can be signed for leaves the queue, over retries,
\* store errors and restarts, unless a row that cannot stands before it.
QueueDrains ==
    \A q \in RowIds :
        (\E r \in queue : r.qid = q /\ r.inbox \notin BadInboxes) ~> (~InQueue(q) \/ Poisoned(q))
=============================================================================
