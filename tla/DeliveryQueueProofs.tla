------------------------ MODULE DeliveryQueueProofs ------------------------
(***************************************************************************)
(* Proofs about DeliveryQueue, for any number of activities, inboxes and     *)
(* workers, any attempt limit, and any number of crashes and failed calls.   *)
(***************************************************************************)
EXTENDS DeliveryQueue, FiniteSetTheorems, TLAPS

Dropping == {"drop_orphan", "drop_delivered", "drop_failed"}
Marking == {"mark_delivered", "mark_failed"}

\* A worker at work has read a row that was inserted before; ids are not
\* reused, and a row has one id.
RowsNumbered ==
    /\ \A r \in queue : r.qid < nextId
    /\ \A r, s \in queue : r.qid = s.qid => r = s
    /\ \A w \in Workers : pc[w] # "idle" => item[w] \in Rows /\ item[w].qid < nextId

\* Who is about to delete a row has seen its final outcome.
DropsAreSettled == \A w \in Workers : pc[w] \in Dropping => item[w].qid \in settled

\* Who is about to mark an activity has seen the outcome it records.
MarksHaveWitness ==
    \A w \in Workers :
        /\ pc[w] \in {"drop_delivered", "mark_delivered"} => Target(w) \in delivered
        /\ pc[w] \in {"drop_failed", "mark_failed"} => Target(w) \in refused

\* The rows inserted since an activity was recorded are rows of that activity,
\* and no worker takes one of them for an orphan.
FreshRowsOwned ==
    /\ \A a \in Activities : \A q \in fresh[a] :
          /\ q < nextId
          /\ \A r \in queue : r.qid = q => r.act = a
          /\ \A w \in Workers : pc[w] # "idle" /\ item[w].qid = q => item[w].act = a
    /\ \A w \in Workers : pc[w] = "drop_orphan" /\ outbox[item[w].act] # "absent" =>
          item[w].qid \notin fresh[item[w].act]

\* As long as nothing failed and the activity is pending, each of these rows is
\* there, or some worker is about to mark the activity.
PendingIsServed ==
    \A a \in Activities : (faults = 0 /\ outbox[a] = "pending") =>
        \A q \in fresh[a] : InQueue(q) \/
            \E w \in Workers : pc[w] \in Marking /\ item[w].act = a

QueueInv ==
    /\ TypeOK /\ RowsNumbered /\ DropsAreSettled /\ MarksHaveWitness
    /\ FreshRowsOwned /\ PendingIsServed
    /\ NoRowLost /\ StateHasWitness

\* The two updates of a row change its counter and its timer only.
Wake(r) == [r EXCEPT !.due = TRUE]
Retry(r) == [r EXCEPT !.attempts = @ + 1, !.due = FALSE]

LEMMA RowUpdates ==
  ASSUME NEW r \in Rows
  PROVE  /\ Wake(r) \in Rows /\ Wake(r).qid = r.qid /\ Wake(r).act = r.act
         /\ Wake(r).attempts = r.attempts
         /\ Retry(r) \in Rows /\ Retry(r).qid = r.qid /\ Retry(r).act = r.act
         /\ Retry(r).attempts = r.attempts + 1
<1>1. Wake(r) \in Rows /\ Wake(r).qid = r.qid /\ Wake(r).act = r.act
  BY DEF Rows, Wake
<1>2. Wake(r).attempts = r.attempts
  BY DEF Rows, Wake
<1>3. Retry(r) \in Rows
  <2> DEFINE counted == [r EXCEPT !.attempts = r.attempts + 1]
  <2>1. counted \in Rows
    BY DEF Rows
  <2>2. Retry(r) = [counted EXCEPT !.due = FALSE]
    BY DEF Retry
  <2> HIDE DEF counted
  <2> QED
    BY <2>1, <2>2 DEF Rows
<1>4. Retry(r).qid = r.qid /\ Retry(r).act = r.act
  BY DEF Rows, Retry
<1>5. Retry(r).attempts = r.attempts + 1
  BY DEF Rows, Retry
<1> QED
  BY <1>1, <1>2, <1>3, <1>4, <1>5

\* Every action keeps the types.
LEMMA TypePreserved == TypeOK /\ RowsNumbered /\ [Next]_vars => TypeOK'
<1> SUFFICES ASSUME TypeOK, RowsNumbered, [Next]_vars PROVE TypeOK'
  OBVIOUS
<1> USE DeliveryAssumption DEF TypeOK, history, tables
<1>0. \A w \in Workers : pc[w] # "idle" => /\ item[w] \in Rows /\ item[w].qid \in Nat
                                           /\ Target(w) \in Activities \X Inboxes
  BY DEF RowsNumbered, Rows, Target
<1>1. ASSUME NEW i \in Inboxes, AddFollower(i) \/ RemoveFollower(i) PROVE TypeOK'
  BY <1>1 DEF AddFollower, RemoveFollower
<1>2. ASSUME NEW a \in Activities, RecordOutbox(a) PROVE TypeOK'
  BY <1>2 DEF RecordOutbox, OutboxStates
<1>3. ASSUME NEW a \in Activities, ResolveTargets(a) PROVE TypeOK'
  BY <1>3 DEF ResolveTargets
<1>4. ASSUME NEW a \in Activities, NEW i \in Inboxes, InsertRow(a, i)
      PROVE  /\ queue' \subseteq Rows /\ nextId' \in Nat \ {0}
             /\ fresh' \in [Activities -> SUBSET Nat]
  <2>1. [qid |-> nextId, act |-> a, inbox |-> i, attempts |-> 0, due |-> TRUE] \in Rows
    BY DEF Rows
  <2>2. nextId' \in Nat \ {0}
    BY <1>4 DEF InsertRow
  <2>4. queue' \subseteq Rows
    <3> HIDE DEF TypeOK
    <3> QED BY <1>4, <2>1 DEF InsertRow, TypeOK
  <2>3. fresh[a] \cup {nextId} \in SUBSET Nat
    OBVIOUS
  <2> QED
    BY <1>4, <2>2, <2>3, <2>4 DEF InsertRow
<1>5. ASSUME NEW a \in Activities, NEW i \in Inboxes, EnqueueDelivery(a, i) PROVE TypeOK'
  BY <1>4, <1>5 DEF EnqueueDelivery
<1>6. ASSUME NEW a \in Activities, FinishOutbox(a) PROVE TypeOK'
  BY <1>6 DEF FinishOutbox
<1>7. ASSUME NEW a \in Activities, NEW i \in Inboxes, EnqueueToInboxes(a, i) PROVE TypeOK'
  BY <1>4, <1>7 DEF EnqueueToInboxes
<1>8. ASSUME NEW w \in Workers, NextDueDelivery(w) PROVE TypeOK'
  BY <1>8 DEF NextDueDelivery, Due, WorkerSteps
<1>9. ASSUME NEW w \in Workers, LoadActivity(w) PROVE TypeOK'
  BY <1>0, <1>9 DEF LoadActivity, Return, WorkerSteps
<1>10. ASSUME NEW w \in Workers, SendSucceeds(w) \/ SendRefused(w) \/ SendFails(w) PROVE TypeOK'
  <2>1. Target(w) \in Activities \X Inboxes /\ item[w].qid \in Nat
    BY <1>0, <1>10 DEF SendSucceeds, SendRefused, SendFails
  <2> QED
    BY <1>10, <2>1 DEF SendSucceeds, SendRefused, SendFails, WorkerSteps
<1>11. ASSUME NEW w \in Workers, DropDelivery(w) PROVE TypeOK'
  BY <1>11 DEF DropDelivery, Return, WorkerSteps
<1>12. ASSUME NEW w \in Workers, MarkOutboxState(w) PROVE TypeOK'
  BY <1>12 DEF MarkOutboxState, Return, WorkerSteps, OutboxStates
<1>13. ASSUME NEW w \in Workers, RescheduleDelivery(w) PROVE TypeOK'
  <2>1. \A s \in queue' : \E r \in queue : s = Retry(r) \/ s = r
    BY <1>13 DEF RescheduleDelivery, Retry
  <2>2. queue' \subseteq Rows
    BY <2>1, RowUpdates
  <2> QED
    BY <1>13, <2>2 DEF RescheduleDelivery, Return, WorkerSteps
<1>14. ASSUME NEW w \in Workers, StoreError(w) PROVE TypeOK'
  BY <1>14 DEF StoreError, Return, WorkerSteps
<1>15. ASSUME NEW r \in queue, BackoffOver(r) PROVE TypeOK'
  BY <1>15, RowUpdates DEF BackoffOver, Wake
<1>16. CASE Crash
  BY <1>16 DEF Crash, WorkerSteps
<1>17. CASE UNCHANGED vars
  BY <1>17 DEF vars
<1> QED
  BY <1>1, <1>2, <1>3, <1>5, <1>6, <1>7, <1>8, <1>9, <1>10, <1>11, <1>12, <1>13, <1>14, <1>15,
     <1>16, <1>17 DEF Next, SubmitStep, DrainStep

\* What each action does to the rows, as far as the invariant sees it.
LEMMA RowsAfter ==
  ASSUME TypeOK
  PROVE  /\ \A w \in Workers : RescheduleDelivery(w) =>
               /\ \A s \in queue' : \E r \in queue : /\ s.qid = r.qid /\ s.act = r.act
                                                     /\ s = IF r.qid = item[w].qid THEN Retry(r) ELSE r
               /\ \A r \in queue : \E s \in queue' : s.qid = r.qid
         /\ \A o \in queue : BackoffOver(o) =>
               /\ \A s \in queue' : \E r \in queue : /\ s.qid = r.qid /\ s.act = r.act
                                                     /\ s = IF r = o THEN Wake(r) ELSE r
               /\ \A r \in queue : \E s \in queue' : s.qid = r.qid
<1>1. ASSUME NEW w \in Workers, RescheduleDelivery(w)
      PROVE  /\ \A s \in queue' : \E r \in queue : /\ s.qid = r.qid /\ s.act = r.act
                                                   /\ s = IF r.qid = item[w].qid THEN Retry(r) ELSE r
             /\ \A r \in queue : \E s \in queue' : s.qid = r.qid
  <2>1. queue' = {IF r.qid = item[w].qid THEN Retry(r) ELSE r : r \in queue}
    BY <1>1 DEF RescheduleDelivery, Retry
  <2>2. \A r \in queue : /\ (IF r.qid = item[w].qid THEN Retry(r) ELSE r).qid = r.qid
                         /\ (IF r.qid = item[w].qid THEN Retry(r) ELSE r).act = r.act
    BY RowUpdates DEF TypeOK
  <2> QED
    BY <2>1, <2>2
<1>2. ASSUME NEW o \in queue, BackoffOver(o)
      PROVE  /\ \A s \in queue' : \E r \in queue : /\ s.qid = r.qid /\ s.act = r.act
                                                   /\ s = IF r = o THEN Wake(r) ELSE r
             /\ \A r \in queue : \E s \in queue' : s.qid = r.qid
  <2>1. queue' = (queue \ {o}) \cup {Wake(o)}
    BY <1>2 DEF BackoffOver, Wake
  <2>2. Wake(o).qid = o.qid /\ Wake(o).act = o.act
    BY RowUpdates DEF TypeOK
  <2> QED
    BY <2>1, <2>2
<1> QED
  BY <1>1, <1>2

\* Every action keeps the invariant.
LEMMA QueuePreserved == QueueInv /\ [Next]_vars => QueueInv'
<1> SUFFICES ASSUME QueueInv, [Next]_vars PROVE QueueInv'
  OBVIOUS
<1>t. TypeOK'
  BY TypePreserved DEF QueueInv
<1>n. /\ nextId \in Nat /\ faults \in Nat
      /\ \A r \in queue : r \in Rows /\ r.qid \in Nat
      /\ \A w \in Workers : pc[w] # "idle" => item[w].qid \in Nat
                                 /\ item[w].act \in Activities /\ item[w].inbox \in Inboxes
  BY DEF QueueInv, TypeOK, RowsNumbered, Rows
<1> DEFINE Rest == /\ RowsNumbered /\ DropsAreSettled /\ MarksHaveWitness
                   /\ FreshRowsOwned /\ PendingIsServed /\ NoRowLost /\ StateHasWitness
<1>1. CASE UNCHANGED <<outbox, queue, nextId, pc, item, faults, delivered, refused, settled, fresh>>
  <2>1. RowsNumbered' /\ DropsAreSettled' /\ MarksHaveWitness' /\ StateHasWitness'
    BY <1>1 DEF QueueInv, RowsNumbered, DropsAreSettled, MarksHaveWitness, StateHasWitness, Target
  <2>2. FreshRowsOwned' /\ PendingIsServed' /\ NoRowLost'
    BY <1>1 DEF QueueInv, FreshRowsOwned, PendingIsServed, InQueue, NoRowLost
  <2> QED
    BY <1>t, <2>1, <2>2 DEF QueueInv
<1>2. ASSUME NEW a \in Activities, RecordOutbox(a) PROVE Rest'
  <2> USE <1>2 DEF RecordOutbox, QueueInv
  <2>1. RowsNumbered' /\ DropsAreSettled' /\ NoRowLost'
    BY DEF RowsNumbered, DropsAreSettled, NoRowLost, InQueue
  <2>2. MarksHaveWitness' /\ StateHasWitness'
    BY DEF MarksHaveWitness, StateHasWitness, Target, TypeOK
  <2>3. FreshRowsOwned' /\ PendingIsServed'
    BY DEF FreshRowsOwned, PendingIsServed, InQueue, TypeOK
  <2> QED
    BY <2>1, <2>2, <2>3
<1>3. ASSUME NEW a \in Activities, NEW i \in Inboxes, InsertRow(a, i),
             UNCHANGED <<outbox, pc, item, faults, delivered, refused, settled>>
      PROVE  Rest'
  <2> DEFINE new == [qid |-> nextId, act |-> a, inbox |-> i, attempts |-> 0, due |-> TRUE]
  <2>0. /\ queue' = queue \cup {new} /\ nextId' = nextId + 1
        /\ fresh' = [fresh EXCEPT ![a] = @ \cup {nextId}]
        /\ new.qid = nextId /\ new.act = a
    BY <1>3 DEF InsertRow
  <2> HIDE DEF new
  <2> USE <1>3, <1>n, <2>0 DEF QueueInv
  <2>1. RowsNumbered'
    BY DEF RowsNumbered
  <2>2. DropsAreSettled' /\ MarksHaveWitness' /\ StateHasWitness'
    BY DEF DropsAreSettled, MarksHaveWitness, StateHasWitness, Target
  <2>3. FreshRowsOwned'
    BY DEF FreshRowsOwned, RowsNumbered, TypeOK
  <2>4. \A q : InQueue(q) \/ q = nextId => InQueue(q)'
    BY DEF InQueue
  <2>5. PendingIsServed'
    BY <2>4 DEF PendingIsServed, TypeOK
  <2>6. NoRowLost'
    BY <2>4 DEF NoRowLost
  <2> QED
    BY <2>1, <2>2, <2>3, <2>5, <2>6
<1>4. ASSUME NEW w \in Workers, NextDueDelivery(w) PROVE Rest'
  <2>0. PICK r \in queue : item' = [item EXCEPT ![w] = r]
    BY <1>4 DEF NextDueDelivery, Due
  <2> USE <1>4, <1>n, <2>0 DEF NextDueDelivery, QueueInv, tables, history, TypeOK
  <2>1. RowsNumbered'
    BY DEF RowsNumbered
  <2>2. DropsAreSettled' /\ MarksHaveWitness' /\ StateHasWitness' /\ NoRowLost'
    BY DEF DropsAreSettled, MarksHaveWitness, StateHasWitness, Target, NoRowLost, InQueue, Dropping
  <2>3. FreshRowsOwned'
    BY DEF FreshRowsOwned
  <2>4. PendingIsServed'
    BY DEF PendingIsServed, InQueue, Marking
  <2> QED
    BY <2>1, <2>2, <2>3, <2>4
<1>5. ASSUME NEW w \in Workers, LoadActivity(w) PROVE Rest'
  <2>0. /\ pc[w] = "load" /\ pc' = [pc EXCEPT ![w] = pc'[w]]
        /\ pc'[w] \in {"idle", "drop_orphan", "send"}
        /\ pc'[w] # "idle" => item' = item
        /\ item' = [item EXCEPT ![w] = item'[w]]
        /\ settled \subseteq settled' /\ (pc'[w] = "drop_orphan" => item[w].qid \in settled')
        /\ pc'[w] = "drop_orphan" => outbox[item[w].act] = "absent"
        /\ UNCHANGED <<outbox, queue, nextId, faults, delivered, refused, fresh>>
    BY <1>5 DEF LoadActivity, Return, tables, QueueInv, TypeOK
  <2> USE <1>n, <2>0 DEF QueueInv, TypeOK
  <2>1. RowsNumbered'
    BY DEF RowsNumbered
  <2>2. DropsAreSettled' /\ MarksHaveWitness' /\ StateHasWitness' /\ NoRowLost'
    BY DEF DropsAreSettled, MarksHaveWitness, StateHasWitness, Target, NoRowLost, InQueue, Dropping
  <2>3. FreshRowsOwned'
    BY DEF FreshRowsOwned
  <2>4. PendingIsServed'
    BY DEF PendingIsServed, InQueue, Marking
  <2> QED
    BY <2>1, <2>2, <2>3, <2>4
<1>6. ASSUME NEW w \in Workers, SendSucceeds(w) \/ SendRefused(w) \/ SendFails(w) PROVE Rest'
  <2>0. /\ pc[w] = "send" /\ pc' = [pc EXCEPT ![w] = pc'[w]]
        /\ pc'[w] \in {"drop_delivered", "drop_failed", "reschedule"}
        /\ settled \subseteq settled' /\ delivered \subseteq delivered' /\ refused \subseteq refused'
        /\ pc'[w] # "reschedule" => item[w].qid \in settled'
        /\ pc'[w] = "drop_delivered" => Target(w) \in delivered'
        /\ pc'[w] = "drop_failed" => Target(w) \in refused'
        /\ UNCHANGED <<outbox, queue, nextId, faults, item, fresh>>
    BY <1>6 DEF SendSucceeds, SendRefused, SendFails, tables, QueueInv, TypeOK
  <2> USE <1>n, <2>0 DEF QueueInv, TypeOK
  <2>1. RowsNumbered'
    BY DEF RowsNumbered
  <2>2. DropsAreSettled' /\ MarksHaveWitness' /\ StateHasWitness' /\ NoRowLost'
    BY DEF DropsAreSettled, MarksHaveWitness, StateHasWitness, Target, NoRowLost, InQueue, Dropping
  <2>3. FreshRowsOwned'
    BY DEF FreshRowsOwned
  <2>4. PendingIsServed'
    BY DEF PendingIsServed, InQueue, Marking
  <2> QED
    BY <2>1, <2>2, <2>3, <2>4
<1>7. ASSUME NEW w \in Workers, DropDelivery(w) PROVE Rest'
  <2>0. /\ pc[w] \in Dropping /\ pc' = [pc EXCEPT ![w] = pc'[w]]
        /\ pc[w] = "drop_orphan" => pc'[w] = "idle"
        /\ pc[w] = "drop_delivered" => pc'[w] = "mark_delivered"
        /\ pc[w] = "drop_failed" => pc'[w] = "mark_failed"
        /\ item' = [item EXCEPT ![w] = item'[w]] /\ (pc'[w] # "idle" => item' = item)
        /\ queue' = {r \in queue : r.qid # item[w].qid}
        /\ UNCHANGED <<outbox, nextId, faults, delivered, refused, settled, fresh>>
    BY <1>7 DEF DropDelivery, Return, history, QueueInv, TypeOK, Dropping
  <2> USE <1>n, <2>0 DEF QueueInv, TypeOK
  <2>1. RowsNumbered'
    BY DEF RowsNumbered, Dropping
  <2>2. DropsAreSettled' /\ MarksHaveWitness' /\ StateHasWitness'
    BY DEF DropsAreSettled, MarksHaveWitness, StateHasWitness, Target, Dropping
  <2>3. FreshRowsOwned'
    BY DEF FreshRowsOwned, Dropping
  <2>4. \A q : InQueue(q) => InQueue(q)' \/ q = item[w].qid
    BY DEF InQueue
  <2>5. NoRowLost'
    BY <2>4 DEF NoRowLost, DropsAreSettled
  <2>6. PendingIsServed'
    <3> SUFFICES ASSUME NEW a \in Activities, faults = 0, outbox[a] = "pending", NEW q \in fresh[a]
                 PROVE  InQueue(q)' \/ \E v \in Workers : pc'[v] \in Marking /\ item'[v].act = a
      BY DEF PendingIsServed
    <3>1. CASE \E v \in Workers : pc[v] \in Marking /\ item[v].act = a
      BY <3>1 DEF Marking, Dropping
    <3>2. CASE InQueue(q) /\ q # item[w].qid
      BY <3>2, <2>4
    <3>3. CASE q = item[w].qid
      <4>1. item[w].act = a
        BY <3>3 DEF FreshRowsOwned, Dropping
      <4>2. pc[w] # "drop_orphan"
        BY <3>3, <4>1 DEF FreshRowsOwned
      <4>3. pc'[w] \in Marking /\ item'[w].act = a
        BY <4>1, <4>2 DEF Dropping, Marking
      <4> QED
        BY <4>3
    <3> QED
      BY <3>1, <3>2, <3>3 DEF PendingIsServed
  <2> QED
    BY <2>1, <2>2, <2>3, <2>5, <2>6
<1>8. ASSUME NEW w \in Workers, MarkOutboxState(w) PROVE Rest'
  <2> DEFINE act == item[w].act
  <2>0. /\ pc[w] \in Marking /\ pc' = [pc EXCEPT ![w] = "idle"]
        /\ item' = [item EXCEPT ![w] = NoItem] /\ act \in Activities
        /\ outbox' = [outbox EXCEPT ![act] = outbox'[act]]
        /\ outbox[act] = "absent" => outbox'[act] = "absent"
        /\ outbox[act] # "absent" =>
              outbox'[act] = IF pc[w] = "mark_delivered" THEN "delivered" ELSE "failed"
        /\ UNCHANGED <<queue, nextId, faults, delivered, refused, settled, fresh>>
    BY <1>8, <1>n DEF MarkOutboxState, Return, history, QueueInv, TypeOK, Marking
  <2> USE <1>n, <2>0 DEF QueueInv, TypeOK
  <2>1. RowsNumbered'
    BY DEF RowsNumbered, Marking
  <2>2. DropsAreSettled' /\ MarksHaveWitness' /\ NoRowLost'
    BY DEF DropsAreSettled, MarksHaveWitness, NoRowLost, InQueue, Target, Dropping
  <2>3. StateHasWitness'
    <3>1. /\ pc[w] = "mark_delivered" => <<act, item[w].inbox>> \in delivered
          /\ pc[w] # "mark_delivered" => <<act, item[w].inbox>> \in refused
          /\ item[w].inbox \in Inboxes
      BY DEF MarksHaveWitness, Target, Marking
    <3> QED
      BY <3>1 DEF StateHasWitness
  <2>4. FreshRowsOwned'
    BY DEF FreshRowsOwned
  <2>5. PendingIsServed'
    BY DEF PendingIsServed, InQueue, Marking
  <2> QED
    BY <2>1, <2>2, <2>3, <2>4, <2>5
<1>9. ASSUME NEW w \in Workers, RescheduleDelivery(w) PROVE Rest'
  <2>0. /\ pc[w] = "reschedule" /\ pc' = [pc EXCEPT ![w] = "idle"]
        /\ item' = [item EXCEPT ![w] = NoItem]
        /\ UNCHANGED <<outbox, nextId, faults, delivered, refused, settled, fresh>>
    BY <1>9 DEF RescheduleDelivery, Return, history
  <2>r. /\ \A s \in queue' : \E r \in queue : /\ s.qid = r.qid /\ s.act = r.act
                                              /\ s = IF r.qid = item[w].qid THEN Retry(r) ELSE r
        /\ \A r \in queue : \E s \in queue' : s.qid = r.qid
    BY <1>9, RowsAfter DEF QueueInv
  <2> USE <1>n, <2>0, <2>r DEF QueueInv, TypeOK
  <2>1. RowsNumbered'
    BY DEF RowsNumbered
  <2>2. DropsAreSettled' /\ MarksHaveWitness' /\ StateHasWitness'
    BY DEF DropsAreSettled, MarksHaveWitness, StateHasWitness, Target, Dropping
  <2>3. NoRowLost'
    BY DEF NoRowLost, InQueue
  <2>4. FreshRowsOwned'
    BY DEF FreshRowsOwned
  <2>5. PendingIsServed'
    BY DEF PendingIsServed, InQueue, Marking
  <2> QED
    BY <2>1, <2>2, <2>3, <2>4, <2>5
<1>10. ASSUME NEW o \in queue, BackoffOver(o) PROVE Rest'
  <2>0. UNCHANGED <<pc, item, outbox, nextId, faults, delivered, refused, settled, fresh>>
    BY <1>10 DEF BackoffOver, history
  <2>r. /\ \A s \in queue' : \E r \in queue : /\ s.qid = r.qid /\ s.act = r.act
                                              /\ s = IF r = o THEN Wake(r) ELSE r
        /\ \A r \in queue : \E s \in queue' : s.qid = r.qid
    BY <1>10, RowsAfter DEF QueueInv
  <2> USE <1>n, <2>0, <2>r DEF QueueInv, TypeOK
  <2>1. RowsNumbered'
    BY DEF RowsNumbered
  <2>2. DropsAreSettled' /\ MarksHaveWitness' /\ StateHasWitness'
    BY DEF DropsAreSettled, MarksHaveWitness, StateHasWitness, Target
  <2>3. NoRowLost'
    BY DEF NoRowLost, InQueue
  <2>4. FreshRowsOwned'
    BY DEF FreshRowsOwned
  <2>5. PendingIsServed'
    BY DEF PendingIsServed, InQueue
  <2> QED
    BY <2>1, <2>2, <2>3, <2>4, <2>5
<1>11. ASSUME NEW w \in Workers, StoreError(w) PROVE Rest'
  <2>0. /\ pc' = [pc EXCEPT ![w] = "idle"] /\ item' = [item EXCEPT ![w] = NoItem]
        /\ faults' # 0
        /\ UNCHANGED <<outbox, queue, nextId, delivered, refused, settled, fresh>>
    BY <1>11, <1>n DEF StoreError, Return, history, tables
  <2> USE <1>n, <2>0 DEF QueueInv, TypeOK
  <2>1. RowsNumbered' /\ FreshRowsOwned' /\ PendingIsServed'
    BY DEF RowsNumbered, FreshRowsOwned, PendingIsServed
  <2>2. DropsAreSettled' /\ MarksHaveWitness' /\ StateHasWitness' /\ NoRowLost'
    BY DEF DropsAreSettled, MarksHaveWitness, StateHasWitness, Target, Dropping, NoRowLost, InQueue
  <2> QED
    BY <2>1, <2>2
<1>12. CASE Crash
  <2>0. /\ \A w \in Workers : pc'[w] = "idle"
        /\ faults' # 0
        /\ UNCHANGED <<outbox, queue, nextId, delivered, refused, settled, fresh>>
    BY <1>12, <1>n DEF Crash, history, tables
  <2> USE <1>n, <2>0 DEF QueueInv, TypeOK
  <2>1. RowsNumbered' /\ FreshRowsOwned' /\ PendingIsServed'
    BY DEF RowsNumbered, FreshRowsOwned, PendingIsServed
  <2>2. DropsAreSettled' /\ MarksHaveWitness' /\ StateHasWitness' /\ NoRowLost'
    BY DEF DropsAreSettled, MarksHaveWitness, StateHasWitness, Dropping, NoRowLost, InQueue
  <2> QED
    BY <2>1, <2>2, <1>t DEF QueueInv
<1>13. CASE UNCHANGED vars
  BY <1>1, <1>13 DEF vars, tables, history
<1>14. CASE \E i \in Inboxes : AddFollower(i) \/ RemoveFollower(i)
  BY <1>1, <1>14 DEF AddFollower, RemoveFollower, history
<1>15. CASE \E a \in Activities : ResolveTargets(a) \/ FinishOutbox(a)
  BY <1>1, <1>15 DEF ResolveTargets, FinishOutbox, tables, history
<1>16. ASSUME NEW a \in Activities, NEW i \in Inboxes, EnqueueDelivery(a, i) \/ EnqueueToInboxes(a, i)
       PROVE  Rest'
  BY <1>3, <1>16 DEF EnqueueDelivery, EnqueueToInboxes
<1>17. Rest' => QueueInv'
  BY <1>t DEF QueueInv
<1> HIDE DEF Rest
<1> QED
  BY <1>2, <1>4, <1>5, <1>6, <1>7, <1>8, <1>9, <1>10, <1>11, <1>12, <1>13, <1>14, <1>15, <1>16,
     <1>17 DEF Next, SubmitStep, DrainStep

LEMMA QueueInvariant == Spec => []QueueInv
<1>1. Init => QueueInv
  BY DEF Init, QueueInv, TypeOK, RowsNumbered, DropsAreSettled, MarksHaveWitness, FreshRowsOwned,
     PendingIsServed, NoRowLost, StateHasWitness, OutboxStates, WorkerSteps, Dropping
<1> QED
  BY <1>1, QueuePreserved, PTL DEF Spec

\* No delivery is forgotten (outbox.rs: "we queue with retry so restarts don't drop signed
\* deliveries"): a row that enqueue_delivery inserted leaves the table only after a worker saw
\* its final outcome, for any interleaving of workers, failed statements and crashes.
THEOREM RowsNeverLost == Spec => []NoRowLost
  BY QueueInvariant, PTL DEF QueueInv

\* The tables and the workers' state keep their types: a row id, an attempt
\* counter, one of the delivery states of an outbox row.
THEOREM DeliveryTypeCorrect == Spec => []TypeOK
  BY QueueInvariant, PTL DEF QueueInv

\* mark_outbox_state records an outcome some inbox produced, and without faults an activity
\* whose last row a worker dropped has been marked: no outcome without a witness, none unrecorded.
THEOREM OutcomesAreRecorded == Spec => []OutcomeRecorded
<1>1. QueueInv => SettledIsMarked
  <2> SUFFICES ASSUME QueueInv, NEW a \in Activities, faults = 0, outbox[a] = "pending",
                      \A r \in queue : r.act # a,
                      \A w \in Workers : pc[w] # "idle" => item[w].act # a
               PROVE  fresh[a] = {}
    BY DEF SettledIsMarked
  <2>1. ASSUME NEW q \in fresh[a] PROVE FALSE
    <3>1. ~InQueue(q)
      BY <2>1 DEF QueueInv, FreshRowsOwned, InQueue
    <3> QED
      BY <2>1, <3>1 DEF QueueInv, PendingIsServed, Marking
  <2> QED
    BY <2>1
<1>2. QueueInv => OutcomeRecorded
  BY <1>1 DEF QueueInv, OutcomeRecorded
<1> QED
  BY <1>2, QueueInvariant, PTL

-----------------------------------------------------------------------------
(* The bound on the POSTs for one row.  The workers that hold a copy of a row *)
(* are counted by what they will still do to it.                              *)

At(q, steps) == {w \in Workers : pc[w] \in steps /\ item[w].qid = q}
Trying(q) == {w \in At(q, {"load", "send"}) : ~Exhausted(item[w])}
LastTry(q) == {w \in At(q, {"load", "send"}) : Exhausted(item[w])}
Retrying(q) == At(q, {"reschedule"})
Settling(q) == At(q, {"drop_delivered", "drop_failed"})

Team == Cardinality(Workers)
Hidden == faults * Team

\* A POST the row's counter does not show yet is one whose worker has not
\* returned, or was hidden by a fault.
PostsCounted ==
    \A r \in queue : r.qid \in RowIds =>
        posts[r.qid] <= r.attempts + Cardinality(Retrying(r.qid))
                        + Cardinality(Settling(r.qid)) + Hidden

\* Nobody raises the counter who read it at the limit.
CounterBounded ==
    \A r \in queue : r.attempts + Cardinality(Trying(r.qid)) + Cardinality(Retrying(r.qid))
                     <= MaxAttempts - 2 + Team

\* Once the row is gone, only the workers that hold a copy of it still send it.
GoneBounded ==
    \A q \in RowIds : q < nextId /\ ~InQueue(q) =>
        posts[q] + Cardinality(Trying(q)) + Cardinality(LastTry(q))
        <= MaxAttempts - 2 + 2 * Team + Hidden

CountInv ==
    /\ posts \in [RowIds -> Nat]
    /\ \A q \in RowIds : q >= nextId => posts[q] = 0
    /\ PostsCounted /\ CounterBounded /\ GoneBounded

LEMMA CountOne ==
  ASSUME NEW S, IsFiniteSet(S), NEW w
  PROVE  /\ Cardinality(S) = Cardinality(S \ {w}) + (IF w \in S THEN 1 ELSE 0)
         /\ Cardinality(S \ {w}) \in Nat /\ Cardinality(S) \in Nat
<1>1. Cardinality(S) \in Nat
  BY FS_CardinalityType
<1>2. /\ IsFiniteSet(S \ {w})
      /\ Cardinality(S \ {w}) = IF w \in S THEN Cardinality(S) - 1 ELSE Cardinality(S)
  BY FS_RemoveElement
<1>3. Cardinality(S \ {w}) \in Nat
  BY <1>2, FS_CardinalityType
<1> QED
  BY <1>1, <1>2, <1>3

LEMMA CountTwo ==
  ASSUME NEW A, NEW B, A \subseteq Workers, B \subseteq Workers, A \cap B = {}
  PROVE  /\ Cardinality(A) + Cardinality(B) <= Team
         /\ Cardinality(A) \in Nat /\ Cardinality(B) \in Nat /\ Team \in Nat
<1>1. IsFiniteSet(A) /\ IsFiniteSet(B) /\ IsFiniteSet(Workers)
  BY FS_Subset, DeliveryAssumption
<1>2. Cardinality(A \cup B) <= Cardinality(Workers)
  BY FS_Subset, DeliveryAssumption
<1>3. Cardinality(A \cup B) = Cardinality(A) + Cardinality(B) - Cardinality(A \cap B)
  BY <1>1, FS_Union
<1>4. Cardinality(A \cap B) = 0
  BY FS_EmptySet
<1> QED
  BY <1>1, <1>2, <1>3, <1>4, FS_CardinalityType DEF Team

\* The counts are natural numbers, and the groups do not overlap.
LEMMA CountTypes ==
  ASSUME NEW q
  PROVE  /\ Cardinality(Trying(q)) \in Nat /\ Cardinality(LastTry(q)) \in Nat
         /\ Cardinality(Retrying(q)) \in Nat /\ Cardinality(Settling(q)) \in Nat
         /\ Team \in Nat
         /\ Cardinality(Trying(q)) + Cardinality(Retrying(q)) <= Team
         /\ Cardinality(LastTry(q)) + Cardinality(Settling(q)) <= Team
         /\ Cardinality(Retrying(q)) + Cardinality(Settling(q)) <= Team
<1>1. /\ Trying(q) \subseteq Workers /\ LastTry(q) \subseteq Workers
      /\ Retrying(q) \subseteq Workers /\ Settling(q) \subseteq Workers
      /\ Trying(q) \cap Retrying(q) = {} /\ LastTry(q) \cap Settling(q) = {}
      /\ Retrying(q) \cap Settling(q) = {}
  BY DEF Trying, LastTry, Retrying, Settling, At
<1>2. /\ Cardinality(Trying(q)) + Cardinality(Retrying(q)) <= Team
      /\ Cardinality(Trying(q)) \in Nat /\ Cardinality(Retrying(q)) \in Nat /\ Team \in Nat
  BY <1>1, CountTwo
<1>3. /\ Cardinality(LastTry(q)) + Cardinality(Settling(q)) <= Team
      /\ Cardinality(LastTry(q)) \in Nat /\ Cardinality(Settling(q)) \in Nat
  BY <1>1, CountTwo
<1>4. Cardinality(Retrying(q)) + Cardinality(Settling(q)) <= Team
  BY <1>1, CountTwo
<1> QED
  BY <1>2, <1>3, <1>4

\* A step of one worker changes no membership but its own.
LEMMA CountMoves ==
  ASSUME TypeOK, TypeOK', NEW w \in Workers, NEW q,
         pc' = [pc EXCEPT ![w] = pc'[w]], item' = [item EXCEPT ![w] = item'[w]]
  PROVE  /\ \E n \in Nat : /\ Cardinality(Trying(q)) = n + (IF w \in Trying(q) THEN 1 ELSE 0)
                           /\ Cardinality(Trying(q)') = n + (IF w \in Trying(q)' THEN 1 ELSE 0)
         /\ \E n \in Nat : /\ Cardinality(LastTry(q)) = n + (IF w \in LastTry(q) THEN 1 ELSE 0)
                           /\ Cardinality(LastTry(q)') = n + (IF w \in LastTry(q)' THEN 1 ELSE 0)
         /\ \E n \in Nat : /\ Cardinality(Retrying(q)) = n + (IF w \in Retrying(q) THEN 1 ELSE 0)
                           /\ Cardinality(Retrying(q)') = n + (IF w \in Retrying(q)' THEN 1 ELSE 0)
         /\ \E n \in Nat : /\ Cardinality(Settling(q)) = n + (IF w \in Settling(q) THEN 1 ELSE 0)
                           /\ Cardinality(Settling(q)') = n + (IF w \in Settling(q)' THEN 1 ELSE 0)
<1>0. \A v \in Workers : v # w => pc'[v] = pc[v] /\ item'[v] = item[v]
  BY DEF TypeOK
<1>1. /\ Trying(q)' \ {w} = Trying(q) \ {w} /\ LastTry(q)' \ {w} = LastTry(q) \ {w}
      /\ Retrying(q)' \ {w} = Retrying(q) \ {w} /\ Settling(q)' \ {w} = Settling(q) \ {w}
  BY <1>0 DEF Trying, LastTry, Retrying, Settling, At, Exhausted
<1>2. /\ Trying(q) \subseteq Workers /\ LastTry(q) \subseteq Workers
      /\ Retrying(q) \subseteq Workers /\ Settling(q) \subseteq Workers
      /\ Trying(q)' \subseteq Workers /\ LastTry(q)' \subseteq Workers
      /\ Retrying(q)' \subseteq Workers /\ Settling(q)' \subseteq Workers
  BY DEF Trying, LastTry, Retrying, Settling, At
<1>3. \A S \in SUBSET Workers : IsFiniteSet(S)
  BY FS_Subset, DeliveryAssumption
<1>4. \A S \in SUBSET Workers : /\ Cardinality(S) = Cardinality(S \ {w}) + (IF w \in S THEN 1 ELSE 0)
                                /\ Cardinality(S \ {w}) \in Nat
  BY <1>3, CountOne
<1> QED
  BY <1>1, <1>2, <1>4

\* Every action keeps the counts.
LEMMA CountPreserved ==
  ASSUME Workers # {}
  PROVE  QueueInv /\ CountInv /\ [Next]_vars => CountInv'
<1> SUFFICES ASSUME QueueInv, CountInv, [Next]_vars PROVE CountInv'
  OBVIOUS
<1>t. TypeOK /\ TypeOK' /\ RowsNumbered
  BY TypePreserved DEF QueueInv
<1>n. /\ nextId \in Nat /\ faults \in Nat /\ MaxAttempts \in Nat \ {0}
      /\ \A r \in queue : r \in Rows /\ r.qid \in Nat /\ r.attempts \in Nat /\ r.qid < nextId
      /\ \A r, s \in queue : r.qid = s.qid => r = s
      /\ \A w \in Workers : pc[w] # "idle" => /\ item[w].qid \in Nat /\ item[w].attempts \in Nat
                                              /\ item[w].qid < nextId
      /\ posts \in [RowIds -> Nat] /\ RowIds \subseteq Int
  BY <1>t, DeliveryAssumption DEF TypeOK, RowsNumbered, Rows, RowIds, CountInv
<1>w. Team \in Nat \ {0}
  BY FS_EmptySet, FS_CardinalityType, DeliveryAssumption DEF Team
<1>h. Hidden \in Nat /\ (faults' = faults => Hidden' = Hidden)
      /\ (faults' = faults + 1 => Hidden' = Hidden + Team)
  BY <1>n, <1>w DEF Hidden, Team
<1>1. ASSUME UNCHANGED <<queue, nextId, pc, item, faults, posts>> PROVE CountInv'
  <2>1. /\ \A q : /\ Trying(q)' = Trying(q) /\ LastTry(q)' = LastTry(q)
                  /\ Retrying(q)' = Retrying(q) /\ Settling(q)' = Settling(q)
        /\ \A q : InQueue(q)' = InQueue(q)
    BY <1>1 DEF Trying, LastTry, Retrying, Settling, At, InQueue
  <2> QED
    BY <1>1, <2>1, <1>h DEF CountInv, PostsCounted, CounterBounded, GoneBounded
<1>2. ASSUME NEW a \in Activities, NEW i \in Inboxes, InsertRow(a, i),
             UNCHANGED <<pc, item, faults, posts>>
      PROVE  CountInv'
  <2> DEFINE new == [qid |-> nextId, act |-> a, inbox |-> i, attempts |-> 0, due |-> TRUE]
  <2>0. /\ queue' = queue \cup {new} /\ nextId' = nextId + 1
        /\ new.qid = nextId /\ new.attempts = 0
    BY <1>2 DEF InsertRow
  <2>1. \A q : /\ Trying(q)' = Trying(q) /\ LastTry(q)' = LastTry(q)
               /\ Retrying(q)' = Retrying(q) /\ Settling(q)' = Settling(q)
    BY <1>2 DEF Trying, LastTry, Retrying, Settling, At
  <2>2. Trying(nextId) = {} /\ Retrying(nextId) = {} /\ Settling(nextId) = {}
    BY <1>n DEF Trying, Retrying, Settling, At
  <2>3. /\ Cardinality(Trying(nextId)) = 0 /\ Cardinality(Retrying(nextId)) = 0
        /\ Cardinality(Settling(nextId)) = 0
    BY <2>2, FS_EmptySet
  <2> HIDE DEF new
  <2>4. posts' \in [RowIds -> Nat] /\ \A q \in RowIds : q >= nextId' => posts'[q] = 0
    BY <1>2, <1>n, <2>0 DEF CountInv
  <2>5. PostsCounted'
    BY <1>2, <1>n, <1>h, <2>0, <2>1, <2>3 DEF CountInv, PostsCounted
  <2>6. CounterBounded'
    BY <1>2, <1>n, <1>w, <2>0, <2>1, <2>3 DEF CountInv, CounterBounded, Team
  <2>7. \A q : InQueue(q)' <=> InQueue(q) \/ q = nextId
    BY <2>0 DEF InQueue
  <2>8. GoneBounded'
    BY <1>2, <1>n, <1>h, <2>0, <2>1, <2>7 DEF CountInv, GoneBounded, Team
  <2> QED
    BY <2>4, <2>5, <2>6, <2>8 DEF CountInv
<1>3. ASSUME NEW w \in Workers, NextDueDelivery(w) PROVE CountInv'
  <2>0. PICK o \in queue : item' = [item EXCEPT ![w] = o]
    BY <1>3 DEF NextDueDelivery, Due
  <2>1. /\ pc[w] = "idle" /\ pc' = [pc EXCEPT ![w] = "load"]
        /\ UNCHANGED <<queue, nextId, faults, posts>>
    BY <1>3 DEF NextDueDelivery, tables, history
  <2>2. /\ pc'[w] = "load" /\ item'[w] = o
        /\ pc' = [pc EXCEPT ![w] = pc'[w]] /\ item' = [item EXCEPT ![w] = item'[w]]
    BY <2>0, <2>1, <1>t DEF TypeOK
  <2>3. ASSUME NEW q
        PROVE  /\ Cardinality(Retrying(q)') = Cardinality(Retrying(q))
               /\ Cardinality(Settling(q)') = Cardinality(Settling(q))
               /\ Cardinality(Trying(q)') =
                     Cardinality(Trying(q)) + IF o.qid = q /\ ~Exhausted(o) THEN 1 ELSE 0
               /\ o.qid # q => Cardinality(LastTry(q)') = Cardinality(LastTry(q))
    <3>1. /\ w \notin Trying(q) /\ w \notin LastTry(q) /\ w \notin Retrying(q) /\ w \notin Settling(q)
          /\ w \notin Retrying(q)' /\ w \notin Settling(q)'
          /\ w \in Trying(q)' <=> o.qid = q /\ ~Exhausted(o)
          /\ o.qid # q => w \notin LastTry(q)'
      BY <2>1, <2>2 DEF Trying, LastTry, Retrying, Settling, At, Exhausted
    <3> QED
      BY <3>1, <2>2, <1>t, CountMoves, CountTypes
  <2>4. posts' \in [RowIds -> Nat] /\ \A q \in RowIds : q >= nextId' => posts'[q] = 0
    BY <2>1 DEF CountInv
  <2>5. PostsCounted'
    BY <2>1, <2>3, <1>h DEF CountInv, PostsCounted
  <2>6. CounterBounded'
    <3> SUFFICES ASSUME NEW r \in queue
                 PROVE  r.attempts + Cardinality(Trying(r.qid)') + Cardinality(Retrying(r.qid)')
                        <= MaxAttempts - 2 + Team
      BY <2>1 DEF CounterBounded, Team
    <3>1. CASE o.qid = r.qid /\ ~Exhausted(o)
      <4>1. r.attempts <= MaxAttempts - 2
        BY <3>1, <1>n DEF Exhausted
      <4>2. /\ Cardinality(Trying(r.qid)) + 1 + Cardinality(Retrying(r.qid)) <= Team
            /\ Cardinality(Trying(r.qid)) \in Nat /\ Cardinality(Retrying(r.qid)) \in Nat
        <5>1. /\ Trying(r.qid)' \subseteq Workers /\ Retrying(r.qid)' \subseteq Workers
              /\ Trying(r.qid)' \cap Retrying(r.qid)' = {}
          BY DEF Trying, Retrying, At
        <5>2. Cardinality(Trying(r.qid)') + Cardinality(Retrying(r.qid)') <= Team
          BY <5>1, CountTwo
        <5> QED
          BY <5>2, <3>1, <2>3, CountTypes
      <4> QED
        BY <3>1, <4>1, <4>2, <2>3, <1>n, <1>w
    <3>2. CASE ~(o.qid = r.qid /\ ~Exhausted(o))
      BY <3>2, <2>3, CountTypes DEF CountInv, CounterBounded
    <3> QED
      BY <3>1, <3>2
  <2>7. GoneBounded'
    <3>1. \A q : ~InQueue(q)' => ~InQueue(q) /\ o.qid # q
      BY <2>1 DEF InQueue
    <3> QED
      BY <3>1, <2>1, <2>3, <1>h, CountTypes DEF CountInv, GoneBounded, Team
  <2> QED
    BY <2>4, <2>5, <2>6, <2>7 DEF CountInv
<1>4. ASSUME NEW w \in Workers, LoadActivity(w) PROVE CountInv'
  <2>1. /\ pc[w] = "load" /\ pc' = [pc EXCEPT ![w] = pc'[w]]
        /\ pc'[w] \in {"idle", "drop_orphan", "send"}
        /\ pc'[w] # "idle" => item' = item
        /\ item' = [item EXCEPT ![w] = item'[w]]
        /\ UNCHANGED <<queue, nextId, faults, posts>>
    BY <1>4, <1>t DEF LoadActivity, Return, tables, TypeOK
  <2>2. ASSUME NEW q
        PROVE  /\ Cardinality(Retrying(q)') = Cardinality(Retrying(q))
               /\ Cardinality(Settling(q)') = Cardinality(Settling(q))
               /\ Cardinality(Trying(q)') <= Cardinality(Trying(q))
               /\ Cardinality(LastTry(q)') <= Cardinality(LastTry(q))
               /\ Cardinality(Trying(q)') \in Nat /\ Cardinality(LastTry(q)') \in Nat
    <3>1. /\ w \notin Retrying(q) /\ w \notin Settling(q)
          /\ w \notin Retrying(q)' /\ w \notin Settling(q)'
          /\ w \in Trying(q)' => w \in Trying(q)
          /\ w \in LastTry(q)' => w \in LastTry(q)
      BY <2>1 DEF Trying, LastTry, Retrying, Settling, At, Exhausted
    <3> QED
      BY <3>1, <2>1, <1>t, CountMoves
  <2>3. posts' \in [RowIds -> Nat] /\ \A q \in RowIds : q >= nextId' => posts'[q] = 0
    BY <2>1 DEF CountInv
  <2>4. PostsCounted'
    BY <2>1, <2>2, <1>h DEF CountInv, PostsCounted
  <2>5. CounterBounded'
    BY <2>1, <2>2, <1>n, <1>w, CountTypes DEF CountInv, CounterBounded, Team
  <2>6. GoneBounded'
    <3>1. \A q : InQueue(q)' = InQueue(q)
      BY <2>1 DEF InQueue
    <3> QED
      BY <3>1, <2>1, <2>2, <1>h, <1>n, <1>w, CountTypes DEF CountInv, GoneBounded, Team
  <2> QED
    BY <2>3, <2>4, <2>5, <2>6 DEF CountInv
<1>5. ASSUME NEW w \in Workers, SendSucceeds(w) \/ SendRefused(w) \/ SendFails(w) PROVE CountInv'
  <2> DEFINE o == item[w].qid
  <2>1. /\ pc[w] = "send" /\ pc' = [pc EXCEPT ![w] = pc'[w]]
        /\ pc'[w] \in {"drop_delivered", "drop_failed", "reschedule"}
        /\ pc'[w] = "reschedule" => ~Exhausted(item[w])
        /\ posts' = [posts EXCEPT ![o] = @ + 1]
        /\ UNCHANGED <<item, queue, nextId, faults>>
    BY <1>5, <1>t DEF SendSucceeds, SendRefused, SendFails, Posted, tables, TypeOK
  <2>2. ASSUME NEW q
        PROVE  /\ Cardinality(Retrying(q)') + Cardinality(Settling(q)') =
                     Cardinality(Retrying(q)) + Cardinality(Settling(q)) + IF o = q THEN 1 ELSE 0
               /\ Cardinality(Trying(q)') + Cardinality(Retrying(q)')
                     <= Cardinality(Trying(q)) + Cardinality(Retrying(q))
               /\ Cardinality(Trying(q)') + Cardinality(LastTry(q)') =
                     Cardinality(Trying(q)) + Cardinality(LastTry(q)) - IF o = q THEN 1 ELSE 0
               /\ Cardinality(Trying(q)') \in Nat /\ Cardinality(LastTry(q)') \in Nat
               /\ Cardinality(Retrying(q)') \in Nat /\ Cardinality(Settling(q)') \in Nat
    <3>1. /\ w \notin Retrying(q) /\ w \notin Settling(q)
          /\ w \notin Trying(q)' /\ w \notin LastTry(q)'
          /\ o # q => /\ w \notin Trying(q) /\ w \notin LastTry(q)
                      /\ w \notin Retrying(q)' /\ w \notin Settling(q)'
          /\ o = q => /\ w \in Trying(q) <=> w \notin LastTry(q)
                      /\ w \in Retrying(q)' <=> w \notin Settling(q)'
                      /\ w \in Retrying(q)' => w \in Trying(q)
      BY <2>1 DEF Trying, LastTry, Retrying, Settling, At, Exhausted
    <3>2. item' = [item EXCEPT ![w] = item'[w]]
      BY <2>1, <1>t DEF TypeOK
    <3> QED
      BY <3>1, <3>2, <2>1, <1>t, CountMoves
  <2>o. o \in Nat /\ o < nextId
    BY <2>1, <1>n
  <2> HIDE DEF o
  <2>p. /\ posts' \in [RowIds -> Nat]
        /\ \A q \in RowIds : posts'[q] = posts[q] + IF o = q THEN 1 ELSE 0
    <3>1. posts' = [q \in RowIds |-> IF q = o THEN posts[q] + 1 ELSE posts[q]]
      BY <2>1, <1>n
    <3>2. \A q \in RowIds : posts[q] \in Nat
      BY <1>n
    <3> QED
      BY <3>1, <3>2
  <2>3. /\ posts' \in [RowIds -> Nat] /\ \A q \in RowIds : q >= nextId' => posts'[q] = 0
        /\ \A q \in RowIds : posts'[q] = posts[q] + IF o = q THEN 1 ELSE 0
    BY <2>1, <2>o, <2>p, <1>n DEF CountInv
  <2>4. PostsCounted'
    BY <2>1, <2>2, <2>3, <1>h, <1>n, CountTypes DEF CountInv, PostsCounted
  <2>5. CounterBounded'
    BY <2>1, <2>2, <1>n, <1>w, CountTypes DEF CountInv, CounterBounded, Team
  <2>6. GoneBounded'
    <3>1. \A q : InQueue(q)' = InQueue(q)
      BY <2>1 DEF InQueue
    <3> QED
      BY <3>1, <2>1, <2>2, <2>3, <1>h, <1>n, <1>w, CountTypes DEF CountInv, GoneBounded, Team
  <2> QED
    BY <2>3, <2>4, <2>5, <2>6 DEF CountInv
<1>6. ASSUME NEW w \in Workers, DropDelivery(w) PROVE CountInv'
  <2> DEFINE o == item[w].qid
  <2>1. /\ pc[w] \in Dropping /\ pc' = [pc EXCEPT ![w] = pc'[w]]
        /\ pc'[w] \in {"idle", "mark_delivered", "mark_failed"}
        /\ item' = [item EXCEPT ![w] = item'[w]]
        /\ queue' = {r \in queue : r.qid # o}
        /\ UNCHANGED <<nextId, faults, posts>>
    BY <1>6, <1>t DEF DropDelivery, Return, history, TypeOK, Dropping
  <2>2. ASSUME NEW q
        PROVE  /\ Cardinality(Trying(q)') = Cardinality(Trying(q))
               /\ Cardinality(LastTry(q)') = Cardinality(LastTry(q))
               /\ Cardinality(Retrying(q)') = Cardinality(Retrying(q))
               /\ o # q => Cardinality(Settling(q)') = Cardinality(Settling(q))
    <3>1. /\ w \notin Trying(q) /\ w \notin LastTry(q) /\ w \notin Retrying(q)
          /\ w \notin Trying(q)' /\ w \notin LastTry(q)' /\ w \notin Retrying(q)'
          /\ w \notin Settling(q)' /\ (o # q => w \notin Settling(q))
      BY <2>1 DEF Trying, LastTry, Retrying, Settling, At, Exhausted, Dropping
    <3> QED
      BY <3>1, <2>1, <1>t, CountMoves
  <2> HIDE DEF o
  <2>3. posts' \in [RowIds -> Nat] /\ \A q \in RowIds : q >= nextId' => posts'[q] = 0
    BY <2>1 DEF CountInv
  <2>4. PostsCounted'
    BY <2>1, <2>2, <1>h DEF CountInv, PostsCounted
  <2>5. CounterBounded'
    BY <2>1, <2>2 DEF CountInv, CounterBounded, Team
  <2>6. ASSUME NEW q \in RowIds, q < nextId, ~InQueue(q)'
        PROVE  posts[q] + Cardinality(Trying(q)) + Cardinality(LastTry(q))
               <= MaxAttempts - 2 + 2 * Team + Hidden
    <3>1. CASE ~InQueue(q)
      BY <3>1, <2>6 DEF CountInv, GoneBounded
    <3>2. CASE InQueue(q)
      <4>1. PICK r \in queue : r.qid = q
        BY <3>2 DEF InQueue
      <4>2. posts[q] <= r.attempts + Cardinality(Retrying(q)) + Cardinality(Settling(q)) + Hidden
        BY <4>1 DEF CountInv, PostsCounted
      <4>3. r.attempts + Cardinality(Trying(q)) + Cardinality(Retrying(q)) <= MaxAttempts - 2 + Team
        BY <4>1 DEF CountInv, CounterBounded
      <4>4. Cardinality(LastTry(q)) + Cardinality(Settling(q)) <= Team
        BY CountTypes
      <4> QED
        BY <4>2, <4>3, <4>4, <1>n, <1>h, <1>w, CountTypes
    <3> QED
      BY <3>1, <3>2
  <2>7. GoneBounded'
    BY <2>1, <2>2, <2>6, <1>h DEF GoneBounded, Team
  <2> QED
    BY <2>3, <2>4, <2>5, <2>7 DEF CountInv
<1>7. ASSUME NEW w \in Workers, MarkOutboxState(w) PROVE CountInv'
  <2>1. /\ pc[w] \in Marking /\ pc' = [pc EXCEPT ![w] = "idle"]
        /\ item' = [item EXCEPT ![w] = NoItem] /\ pc'[w] = "idle"
        /\ UNCHANGED <<queue, nextId, faults, posts>>
    BY <1>7, <1>t DEF MarkOutboxState, Return, history, Marking, TypeOK
  <2>2. \A v \in Workers : v # w => pc'[v] = pc[v] /\ item'[v] = item[v]
    BY <2>1, <1>t DEF TypeOK
  <2>3. /\ \A q : /\ Trying(q)' = Trying(q) /\ LastTry(q)' = LastTry(q)
                  /\ Retrying(q)' = Retrying(q) /\ Settling(q)' = Settling(q)
        /\ \A q : InQueue(q)' = InQueue(q)
    BY <2>1, <2>2 DEF Trying, LastTry, Retrying, Settling, At, InQueue, Exhausted, Marking
  <2> QED
    BY <2>1, <2>3, <1>h DEF CountInv, PostsCounted, CounterBounded, GoneBounded
<1>8. ASSUME NEW w \in Workers, RescheduleDelivery(w) PROVE CountInv'
  <2> DEFINE o == item[w].qid
  <2>1. /\ pc[w] = "reschedule" /\ pc' = [pc EXCEPT ![w] = pc'[w]] /\ pc'[w] = "idle"
        /\ item' = [item EXCEPT ![w] = item'[w]]
        /\ UNCHANGED <<nextId, faults, posts>>
    BY <1>8, <1>t DEF RescheduleDelivery, Return, history, TypeOK
  <2>2. ASSUME NEW q
        PROVE  /\ Cardinality(Trying(q)') = Cardinality(Trying(q))
               /\ Cardinality(LastTry(q)') = Cardinality(LastTry(q))
               /\ Cardinality(Settling(q)') = Cardinality(Settling(q))
               /\ Cardinality(Retrying(q)') = Cardinality(Retrying(q)) - IF o = q THEN 1 ELSE 0
    <3>1. /\ w \notin Trying(q) /\ w \notin LastTry(q) /\ w \notin Settling(q)
          /\ w \notin Trying(q)' /\ w \notin LastTry(q)' /\ w \notin Settling(q)'
          /\ w \notin Retrying(q)' /\ (w \in Retrying(q) <=> o = q)
      BY <2>1 DEF Trying, LastTry, Retrying, Settling, At, Exhausted
    <3> QED
      BY <3>1, <2>1, <1>t, CountMoves
  <2>3. /\ \A s \in queue' : \E r \in queue :
              /\ s.qid = r.qid /\ s.attempts = r.attempts + IF r.qid = o THEN 1 ELSE 0
        /\ \A r \in queue : \E s \in queue' : s.qid = r.qid
    BY <1>8, <1>t, <1>n, RowsAfter, RowUpdates
  <2> HIDE DEF o
  <2>4. posts' \in [RowIds -> Nat] /\ \A q \in RowIds : q >= nextId' => posts'[q] = 0
    BY <2>1 DEF CountInv
  <2>5. PostsCounted'
    BY <2>1, <2>2, <2>3, <1>h, <1>n, CountTypes DEF CountInv, PostsCounted
  <2>6. CounterBounded'
    BY <2>2, <2>3, <1>n, <1>w, CountTypes DEF CountInv, CounterBounded, Team
  <2>7. GoneBounded'
    <3>1. \A q : ~InQueue(q)' => ~InQueue(q)
      BY <2>3 DEF InQueue
    <3> QED
      BY <3>1, <2>1, <2>2, <1>h DEF CountInv, GoneBounded, Team
  <2> QED
    BY <2>4, <2>5, <2>6, <2>7 DEF CountInv
<1>9. ASSUME NEW w \in Workers, StoreError(w) PROVE CountInv'
  <2>1. /\ pc[w] \notin {"idle", "send"} /\ pc' = [pc EXCEPT ![w] = pc'[w]] /\ pc'[w] = "idle"
        /\ item' = [item EXCEPT ![w] = item'[w]]
        /\ faults' = faults + 1
        /\ UNCHANGED <<queue, nextId, posts>>
    BY <1>9, <1>t DEF StoreError, Return, tables, history, TypeOK
  <2>2. ASSUME NEW q
        PROVE  /\ Cardinality(Trying(q)') <= Cardinality(Trying(q))
               /\ Cardinality(LastTry(q)') <= Cardinality(LastTry(q))
               /\ Cardinality(Retrying(q)') <= Cardinality(Retrying(q))
               /\ Cardinality(Retrying(q)) + Cardinality(Settling(q))
                     <= Cardinality(Retrying(q)') + Cardinality(Settling(q)') + 1
               /\ Cardinality(Trying(q)') \in Nat /\ Cardinality(LastTry(q)') \in Nat
               /\ Cardinality(Retrying(q)') \in Nat /\ Cardinality(Settling(q)') \in Nat
    <3>1. /\ w \notin Trying(q)' /\ w \notin LastTry(q)' /\ w \notin Settling(q)'
          /\ w \notin Retrying(q)' /\ ~(w \in Retrying(q) /\ w \in Settling(q))
      BY <2>1 DEF Trying, LastTry, Retrying, Settling, At
    <3> QED
      BY <3>1, <2>1, <1>t, CountMoves
  <2>3. Hidden' = Hidden + Team
    BY <2>1, <1>h
  <2>4. posts' \in [RowIds -> Nat] /\ \A q \in RowIds : q >= nextId' => posts'[q] = 0
    BY <2>1 DEF CountInv
  <2>5. PostsCounted'
    BY <2>1, <2>2, <2>3, <1>h, <1>w, <1>n, CountTypes DEF CountInv, PostsCounted
  <2>6. CounterBounded'
    BY <2>1, <2>2, <1>n, <1>w, CountTypes DEF CountInv, CounterBounded, Team
  <2>7. GoneBounded'
    <3>1. \A q : InQueue(q)' = InQueue(q)
      BY <2>1 DEF InQueue
    <3> QED
      BY <3>1, <2>1, <2>2, <2>3, <1>h, <1>w, <1>n, CountTypes DEF CountInv, GoneBounded, Team
  <2> QED
    BY <2>4, <2>5, <2>6, <2>7 DEF CountInv
<1>10. ASSUME NEW o \in queue, BackoffOver(o) PROVE CountInv'
  <2>1. UNCHANGED <<pc, item, nextId, faults, posts>>
    BY <1>10 DEF BackoffOver, history
  <2>2. \A q : /\ Trying(q)' = Trying(q) /\ LastTry(q)' = LastTry(q)
               /\ Retrying(q)' = Retrying(q) /\ Settling(q)' = Settling(q)
    BY <2>1 DEF Trying, LastTry, Retrying, Settling, At
  <2>3. /\ \A s \in queue' : \E r \in queue : s.qid = r.qid /\ s.attempts = r.attempts
        /\ \A r \in queue : \E s \in queue' : s.qid = r.qid
    BY <1>10, <1>t, <1>n, RowsAfter, RowUpdates
  <2>4. \A q : InQueue(q)' = InQueue(q)
    BY <2>3 DEF InQueue
  <2> QED
    BY <2>1, <2>2, <2>3, <2>4, <1>h DEF CountInv, PostsCounted, CounterBounded, GoneBounded
<1>11. ASSUME Crash PROVE CountInv'
  <2>1. /\ \A w \in Workers : pc'[w] = "idle"
        /\ faults' = faults + 1 /\ UNCHANGED <<queue, nextId, posts>>
    BY <1>11 DEF Crash, tables, history
  <2>2. \A q : Trying(q)' = {} /\ LastTry(q)' = {} /\ Retrying(q)' = {} /\ Settling(q)' = {}
    BY <2>1 DEF Trying, LastTry, Retrying, Settling, At
  <2>3. \A q : /\ Cardinality(Trying(q)') = 0 /\ Cardinality(LastTry(q)') = 0
               /\ Cardinality(Retrying(q)') = 0 /\ Cardinality(Settling(q)') = 0
    BY <2>2, FS_EmptySet
  <2>4. Hidden' = Hidden + Team
    BY <2>1, <1>h
  <2>5. posts' \in [RowIds -> Nat] /\ \A q \in RowIds : q >= nextId' => posts'[q] = 0
    BY <2>1 DEF CountInv
  <2>6. PostsCounted'
    BY <2>1, <2>3, <2>4, <1>h, <1>w, <1>n, CountTypes DEF CountInv, PostsCounted
  <2>7. CounterBounded'
    BY <2>1, <2>3, <1>n, <1>w, CountTypes DEF CountInv, CounterBounded, Team
  <2>8. GoneBounded'
    <3>1. \A q : InQueue(q)' = InQueue(q)
      BY <2>1 DEF InQueue
    <3>2. ASSUME NEW q \in RowIds, q < nextId, ~InQueue(q)
          PROVE  posts[q] <= MaxAttempts - 2 + 2 * Team + Hidden
      BY <3>2, <1>h, <1>w, <1>n, CountTypes DEF CountInv, GoneBounded
    <3>3. \A q \in RowIds : posts[q] \in Nat
      BY <1>n
    <3> QED
      BY <3>1, <3>2, <3>3, <2>1, <2>3, <2>4, <1>h, <1>w, <1>n DEF GoneBounded, Team
  <2> QED
    BY <2>5, <2>6, <2>7, <2>8 DEF CountInv
<1>12. CASE UNCHANGED vars
  BY <1>1, <1>12 DEF vars, tables, history
<1>13. CASE \E i \in Inboxes : AddFollower(i) \/ RemoveFollower(i)
  BY <1>1, <1>13 DEF AddFollower, RemoveFollower, history
<1>14. CASE \E a \in Activities : RecordOutbox(a) \/ ResolveTargets(a) \/ FinishOutbox(a)
  BY <1>1, <1>14 DEF RecordOutbox, ResolveTargets, FinishOutbox, tables, history
<1>15. CASE \E a \in Activities, i \in Inboxes : EnqueueDelivery(a, i) \/ EnqueueToInboxes(a, i)
  BY <1>2, <1>15 DEF EnqueueDelivery, EnqueueToInboxes
<1> QED
  BY <1>3, <1>4, <1>5, <1>6, <1>7, <1>8, <1>9, <1>10, <1>11, <1>12, <1>13, <1>14, <1>15
     DEF Next, SubmitStep, DrainStep

\* MAX_ATTEMPTS bounds the POSTs for one row although next_due_delivery claims nothing and the
\* give-up test looks at a stale counter: each worker beyond the first adds at most two, each
\* crash or failed statement at most one per worker.
THEOREM PostsAreBounded ==
  ASSUME Workers # {}
  PROVE  Spec => []PostsBounded
<1>0. Team \in Nat \ {0} /\ MaxAttempts \in Nat \ {0}
  BY FS_EmptySet, FS_CardinalityType, DeliveryAssumption DEF Team
<1>1. Init => CountInv
  <2> SUFFICES ASSUME Init PROVE CountInv
    OBVIOUS
  <2> QED
    BY DEF Init, CountInv, PostsCounted, CounterBounded, GoneBounded, RowIds
<1>2. CountInv /\ QueueInv => PostsBounded
  <2> SUFFICES ASSUME CountInv, QueueInv, NEW q \in RowIds
               PROVE  posts[q] <= MaxAttempts + 2 * (Team - 1) + Hidden
    BY DEF PostsBounded, Team, Hidden
  <2>1. Hidden \in Nat /\ q \in Int /\ nextId \in Nat /\ posts[q] \in Nat
    BY <1>0 DEF Hidden, QueueInv, TypeOK, RowIds, CountInv
  <2>2. CASE q >= nextId
    BY <2>1, <2>2, <1>0 DEF CountInv
  <2>3. CASE InQueue(q)
    <3>1. PICK r \in queue : r.qid = q
      BY <2>3 DEF InQueue
    <3>2. r.attempts \in Nat
      BY DEF QueueInv, TypeOK, Rows
    <3>3. posts[q] <= r.attempts + Cardinality(Retrying(q)) + Cardinality(Settling(q)) + Hidden
      BY <3>1 DEF CountInv, PostsCounted
    <3>4. r.attempts + Cardinality(Trying(q)) + Cardinality(Retrying(q)) <= MaxAttempts - 2 + Team
      BY <3>1 DEF CountInv, CounterBounded
    <3> QED
      BY <3>2, <3>3, <3>4, <2>1, <1>0, CountTypes
  <2>4. CASE q < nextId /\ ~InQueue(q)
    BY <2>4, <2>1, <1>0, CountTypes DEF CountInv, GoneBounded
  <2> QED
    BY <2>1, <2>2, <2>3, <2>4
<1>3. QueueInv /\ CountInv /\ [Next]_vars => CountInv'
  BY CountPreserved
<1> QED
  BY <1>1, <1>2, <1>3, QueueInvariant, PTL DEF Spec
=============================================================================
