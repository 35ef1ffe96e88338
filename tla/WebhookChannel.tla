--------------------------- MODULE WebhookChannel ---------------------------
(***************************************************************************)
(* The webhook notification channel (WebhookChannelManager of                *)
(* notifications/mod.rs).  The manager is cloned: several pumps deliver      *)
(* events at once, sharing the subscriptions and one failure counter, the    *)
(* circuit breaker.  A delivery reads the counter before its first POST and  *)
(* updates it after its last, with awaits in between.                        *)
(***************************************************************************)
EXTENDS Integers, FiniteSets

CONSTANTS
    Pumps,        \* concurrent callers of deliver_all
    Subs,         \* subscription ids
    Notes,        \* notifications
    Matches,      \* the subscriptions whose topic matches each notification
    MaxRetries,   \* max_retries
    Threshold,    \* circuit_threshold
    MaxEvents     \* bound: events taken, subscriptions made and resets

ASSUME WebhookAssumption ==
    /\ IsFiniteSet(Pumps) /\ Pumps # {} /\ Subs # {} /\ Notes # {}
    /\ Matches \in [Notes -> SUBSET Subs]
    /\ MaxRetries \in Nat /\ Threshold \in Nat /\ MaxEvents \in Nat

VARIABLES
    subs,       \* the subscriptions map
    failures,   \* consecutive_failures
    pc,         \* where each pump is in deliver_all and deliver_one
    note,       \* the notification it delivers
    todo,       \* its snapshot of the subscriptions, those still to serve
    cur,        \* the subscription it is serving
    attempt,    \* attempts of deliver_one that failed
    dropped,    \* subscriptions that answered 410
    taken,
    gone        \* history: subscriptions that answered 410

local == <<note, todo, cur, attempt, dropped>>
vars == <<subs, failures, pc, local, taken, gone>>

PumpSteps == {"idle", "next", "check", "send", "sleep"}
SomeNote == CHOOSE n \in Notes : TRUE
SomeSub == CHOOSE s \in Subs : TRUE

\* The manager and each pump; deliver_one never counts past max_retries.
TypeOK ==
    /\ subs \subseteq Subs
    /\ failures \in Nat
    /\ pc \in [Pumps -> PumpSteps]
    /\ note \in [Pumps -> Notes]
    /\ todo \in [Pumps -> SUBSET Subs]
    /\ cur \in [Pumps -> Subs]
    /\ attempt \in [Pumps -> 0..MaxRetries]
    /\ dropped \in [Pumps -> SUBSET Subs]
    /\ taken \in Nat
    /\ gone \subseteq Subs

Init ==
    /\ subs = {}
    /\ failures = 0
    /\ pc = [p \in Pumps |-> "idle"]
    /\ note = [p \in Pumps |-> SomeNote]
    /\ todo = [p \in Pumps |-> {}]
    /\ cur = [p \in Pumps |-> SomeSub]
    /\ attempt = [p \in Pumps |-> 0]
    /\ dropped = [p \in Pumps |-> {}]
    /\ taken = 0
    /\ gone = {}

CircuitOpen == failures >= Threshold

Subscribe(s) ==
    /\ s \notin subs /\ taken < MaxEvents
    /\ taken' = taken + 1
    /\ subs' = subs \cup {s}
    /\ gone' = gone \ {s}
    /\ UNCHANGED <<failures, pc, local>>

Unsubscribe(s) ==
    /\ subs' = subs \ {s}
    /\ UNCHANGED <<failures, pc, local, taken, gone>>

ResetCircuit ==
    /\ taken < MaxEvents
    /\ taken' = taken + 1
    /\ failures' = 0
    /\ UNCHANGED <<subs, pc, local, gone>>

\* A pump takes an event: the matching subscriptions, copied under the lock.
DeliverAll(p, n) ==
    /\ pc[p] = "idle" /\ taken < MaxEvents
    /\ taken' = taken + 1
    /\ pc' = [pc EXCEPT ![p] = "next"]
    /\ note' = [note EXCEPT ![p] = n]
    /\ todo' = [todo EXCEPT ![p] = subs \cap Matches[n]]
    /\ UNCHANGED <<subs, failures, cur, attempt, dropped, gone>>

\* The map is unordered.
NextSubscription(p, s) ==
    /\ pc[p] = "next" /\ s \in todo[p]
    /\ pc' = [pc EXCEPT ![p] = "check"]
    /\ todo' = [todo EXCEPT ![p] = @ \ {s}]
    /\ cur' = [cur EXCEPT ![p] = s]
    /\ attempt' = [attempt EXCEPT ![p] = 0]
    /\ UNCHANGED <<subs, failures, note, dropped, taken, gone>>

\* The drops of the whole round are applied once it is over.
Finish(p) ==
    /\ pc[p] = "next" /\ todo[p] = {}
    /\ pc' = [pc EXCEPT ![p] = "idle"]
    /\ subs' = subs \ dropped[p]
    /\ dropped' = [dropped EXCEPT ![p] = {}]
    /\ UNCHANGED <<failures, note, todo, cur, attempt, taken, gone>>

\* Mutation of CheckCircuit: the threshold is compared strictly.
CheckCircuitLate(p) ==
    /\ pc[p] = "check"
    /\ pc' = [pc EXCEPT ![p] = IF failures > Threshold THEN "next" ELSE "send"]
    /\ UNCHANGED <<subs, failures, local, taken, gone>>

\* The breaker is read once, before the first attempt; an open one skips the
\* subscription.
CheckCircuit(p) ==
    /\ pc[p] = "check"
    /\ pc' = [pc EXCEPT ![p] = IF CircuitOpen THEN "next" ELSE "send"]
    /\ UNCHANGED <<subs, failures, local, taken, gone>>

\* 2xx and 410 both reset the breaker.
Succeed(p) ==
    /\ pc[p] = "send"
    /\ failures' = 0
    /\ pc' = [pc EXCEPT ![p] = "next"]
    /\ UNCHANGED <<subs, local, taken, gone>>

FatalDrop(p) ==
    /\ pc[p] = "send"
    /\ failures' = 0
    /\ pc' = [pc EXCEPT ![p] = "next"]
    /\ dropped' = [dropped EXCEPT ![p] = @ \cup {cur[p]}]
    /\ gone' = IF cur[p] \in subs THEN gone \cup {cur[p]} ELSE gone
    /\ UNCHANGED <<subs, note, todo, cur, attempt, taken>>

\* Mutation of Fail: every attempt counts as a failure.
FailEachAttempt(p) ==
    /\ pc[p] = "send"
    /\ failures' = failures + 1
    /\ \/ /\ attempt[p] + 1 > MaxRetries
          /\ pc' = [pc EXCEPT ![p] = "next"]
          /\ UNCHANGED attempt
       \/ /\ attempt[p] + 1 <= MaxRetries
          /\ attempt' = [attempt EXCEPT ![p] = @ + 1]
          /\ pc' = [pc EXCEPT ![p] = "sleep"]
    /\ UNCHANGED <<subs, note, todo, cur, dropped, taken, gone>>

\* Mutation of Fail: the attempt is not counted.
FailUncounted(p) ==
    /\ pc[p] = "send"
    /\ \/ /\ attempt[p] + 1 > MaxRetries
          /\ failures' = failures + 1
          /\ pc' = [pc EXCEPT ![p] = "next"]
       \/ /\ attempt[p] + 1 <= MaxRetries
          /\ pc' = [pc EXCEPT ![p] = "sleep"]
          /\ UNCHANGED failures
    /\ UNCHANGED <<subs, note, todo, cur, attempt, dropped, taken, gone>>

\* 429, 5xx, other 4xx, 1xx, 3xx and network errors: sleep and try again, or
\* give up and record one failure.
Fail(p) ==
    /\ pc[p] = "send"
    /\ \/ /\ attempt[p] + 1 > MaxRetries
          /\ failures' = failures + 1
          /\ pc' = [pc EXCEPT ![p] = "next"]
          /\ UNCHANGED attempt
       \/ /\ attempt[p] + 1 <= MaxRetries
          /\ attempt' = [attempt EXCEPT ![p] = @ + 1]
          /\ pc' = [pc EXCEPT ![p] = "sleep"]
          /\ UNCHANGED failures
    /\ UNCHANGED <<subs, note, todo, cur, dropped, taken, gone>>

\* The back-off, at most max_backoff, is over.
Wake(p) ==
    /\ pc[p] = "sleep"
    /\ pc' = [pc EXCEPT ![p] = "send"]
    /\ UNCHANGED <<subs, failures, local, taken, gone>>

PumpStep(p) ==
    \/ \E s \in Subs : NextSubscription(p, s)
    \/ CheckCircuit(p)
    \/ Succeed(p) \/ FatalDrop(p) \/ Fail(p)
    \/ Wake(p)
    \/ Finish(p)

Next ==
    \/ \E s \in Subs : Subscribe(s) \/ Unsubscribe(s)
    \/ ResetCircuit
    \/ \E p \in Pumps, n \in Notes : DeliverAll(p, n)
    \/ \E p \in Pumps : PumpStep(p)

Spec == Init /\ [][Next]_vars

\* A pump that has taken an event is polled until deliver_all returns: every
\* POST is answered or times out (10 s), every sleep is at most max_backoff.
FairSpec == Spec /\ \A p \in Pumps : WF_vars(PumpStep(p))

----------------------------------------------------------------------------
(* Properties.                                                             *)

\* Deliveries past the breaker's check that have not reported yet.
InFlight == {p \in Pumps : pc[p] \in {"send", "sleep"}}

\* The counter overshoots the threshold by at most the deliveries that were
\* already past the check when it was reached, one per other pump; in
\* particular fetch_add never wraps the u32.
FailuresBounded == failures <= Threshold + Cardinality(Pumps) - 1

\* Once the breaker is open and no delivery is in flight, nothing is sent and
\* only reset_circuit closes it: neither a new event, nor a subscriber that
\* recovered, nor a delivery that was waiting its turn.  The comment on the
\* manager says that calls short-circuit "until a successful delivery resets the
\* counter"; with nothing in flight there is none, as deliver_one returns before
\* it sends, so what the comment names as the way out cannot happen.
OpenUntilReset ==
    [][(CircuitOpen /\ InFlight = {}) =>
          (CircuitOpen' /\ InFlight' = {}) \/ ResetCircuit]_vars

\* deliver_all returns, so the pump gets to its next event, whatever the
\* receivers answer; and a subscription that answered 410 is removed in the
\* end, although the removal waits for the rest of the round, unless it is
\* made anew.
RoundsSettle ==
    /\ \A p \in Pumps : (pc[p] # "idle") ~> (pc[p] = "idle")
    /\ \A s \in Subs : (s \in gone) ~> (s \notin subs \/ s \notin gone)
=============================================================================
