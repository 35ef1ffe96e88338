------------------------ MODULE WebhookChannelProofs ------------------------
(***************************************************************************)
(* The circuit breaker of the webhook channel, for any number of pumps,      *)
(* subscriptions and notifications, any threshold and any retry limit.       *)
(***************************************************************************)
EXTENDS WebhookChannel, FiniteSetTheorems, TLAPS

\* A delivery past the check has reserved a place for the failure it may
\* still report: the counter and the reservations together are bounded.
Reserved == failures + Cardinality(InFlight) <= Threshold - 1 + Cardinality(Pumps)

\* A breaker with threshold 0 is open from the start: nothing is ever sent.
NeverSent == Threshold = 0 => InFlight = {}

BreakerInv == TypeOK /\ NeverSent /\ Reserved

LEMMA SomeChosen == SomeNote \in Notes /\ SomeSub \in Subs
  BY WebhookAssumption DEF SomeNote, SomeSub

\* Sets of pumps are finite and no larger than Pumps, before and after a step.
LEMMA InFlightFinite ==
  /\ IsFiniteSet(InFlight) /\ Cardinality(InFlight) \in Nat
  /\ IsFiniteSet(InFlight') /\ Cardinality(InFlight') \in Nat
  /\ Cardinality(Pumps) \in Nat \ {0}
  /\ Cardinality(InFlight) <= Cardinality(Pumps)
  /\ Cardinality(InFlight') <= Cardinality(Pumps)
<1>1. InFlight \subseteq Pumps /\ InFlight' \subseteq Pumps
  BY DEF InFlight
<1>2. IsFiniteSet(Pumps) /\ Pumps # {}
  BY WebhookAssumption
<1>3. Cardinality(Pumps) \in Nat /\ Cardinality(Pumps) # 0
  BY <1>2, FS_CardinalityType, FS_EmptySet
<1>4. /\ IsFiniteSet(InFlight) /\ Cardinality(InFlight) <= Cardinality(Pumps)
      /\ IsFiniteSet(InFlight') /\ Cardinality(InFlight') <= Cardinality(Pumps)
  BY <1>1, <1>2, FS_Subset
<1> QED
  BY <1>3, <1>4, FS_CardinalityType

\* Every action of the manager keeps the types.
LEMMA TypePreserved == TypeOK /\ [Next]_vars => TypeOK'
<1> SUFFICES ASSUME TypeOK, [Next]_vars PROVE TypeOK'
  OBVIOUS
<1> USE WebhookAssumption DEF TypeOK, PumpSteps
<1>1. ASSUME NEW s \in Subs, Subscribe(s) PROVE TypeOK'
  BY <1>1 DEF Subscribe, local
<1>2. ASSUME NEW s \in Subs, Unsubscribe(s) PROVE TypeOK'
  BY <1>2 DEF Unsubscribe, local
<1>3. CASE ResetCircuit
  BY <1>3 DEF ResetCircuit, local
<1>4. ASSUME NEW p \in Pumps, NEW n \in Notes, DeliverAll(p, n) PROVE TypeOK'
  BY <1>4 DEF DeliverAll
<1>5. ASSUME NEW p \in Pumps, NEW s \in Subs, NextSubscription(p, s) PROVE TypeOK'
  BY <1>5 DEF NextSubscription
<1>6. ASSUME NEW p \in Pumps, CheckCircuit(p) PROVE TypeOK'
  BY <1>6 DEF CheckCircuit, local
<1>7. ASSUME NEW p \in Pumps, Succeed(p) PROVE TypeOK'
  BY <1>7 DEF Succeed, local
<1>8. ASSUME NEW p \in Pumps, FatalDrop(p) PROVE TypeOK'
  BY <1>8 DEF FatalDrop
<1>9. ASSUME NEW p \in Pumps, Fail(p) PROVE TypeOK'
  BY <1>9 DEF Fail
<1>10. ASSUME NEW p \in Pumps, Wake(p) PROVE TypeOK'
  BY <1>10 DEF Wake, local
<1>11. ASSUME NEW p \in Pumps, Finish(p) PROVE TypeOK'
  BY <1>11 DEF Finish
<1>12. CASE UNCHANGED vars
  BY <1>12 DEF vars, local
<1> QED
  BY <1>1, <1>2, <1>3, <1>4, <1>5, <1>6, <1>7, <1>8, <1>9, <1>10, <1>11, <1>12
  DEF Next, PumpStep

\* How the reservations change: CheckCircuit makes one when the breaker is
\* closed, an answer that ends the delivery gives it back.
LEMMA ReservationSteps ==
  ASSUME TypeOK, NEW p \in Pumps
  PROVE  /\ pc[p] = "check" /\ pc' = [pc EXCEPT ![p] = "send"]
              => InFlight' = InFlight \cup {p} /\ p \notin InFlight
         /\ pc[p] = "send" /\ pc' = [pc EXCEPT ![p] = "next"]
              => InFlight' = InFlight \ {p} /\ p \in InFlight
         /\ pc[p] = "send" /\ pc' = [pc EXCEPT ![p] = "sleep"] => InFlight' = InFlight
         /\ pc[p] = "sleep" /\ pc' = [pc EXCEPT ![p] = "send"] => InFlight' = InFlight
         /\ pc[p] \in {"idle", "next", "check"}
              => \A s \in {"idle", "next", "check"} :
                    pc' = [pc EXCEPT ![p] = s] => InFlight' = InFlight
  BY DEF TypeOK, InFlight, PumpSteps

LEMMA BreakerPreserved == BreakerInv /\ [Next]_vars => NeverSent' /\ Reserved'
<1> SUFFICES ASSUME BreakerInv, [Next]_vars PROVE NeverSent' /\ Reserved'
  OBVIOUS
<1> USE WebhookAssumption, InFlightFinite
<1>0. TypeOK /\ NeverSent /\ Reserved /\ failures \in Nat
  BY DEF BreakerInv, TypeOK
<1>a. ASSUME failures' \in Nat, failures' <= failures, InFlight' = InFlight
      PROVE  NeverSent' /\ Reserved'
  BY <1>0, <1>a DEF NeverSent, Reserved
<1>b. ASSUME NEW p \in Pumps, InFlight' = InFlight \ {p}, p \in InFlight
      PROVE  Cardinality(InFlight') = Cardinality(InFlight) - 1
  BY <1>b, FS_RemoveElement
<1>1. ASSUME NEW s \in Subs, Subscribe(s) \/ Unsubscribe(s) PROVE NeverSent' /\ Reserved'
  BY <1>0, <1>1, <1>a DEF Subscribe, Unsubscribe, InFlight
<1>2. CASE ResetCircuit
  <2>1. InFlight' = InFlight /\ failures' = 0
    BY <1>2 DEF ResetCircuit, InFlight
  <2> QED
    BY <2>1, <1>0, <1>a
<1>3. ASSUME NEW p \in Pumps, NEW n \in Notes, DeliverAll(p, n) PROVE NeverSent' /\ Reserved'
  <2>1. failures' = failures /\ InFlight' = InFlight
    BY <1>0, <1>3, ReservationSteps DEF DeliverAll
  <2> QED
    BY <2>1, <1>0, <1>a
<1>4. ASSUME NEW p \in Pumps, NEW s \in Subs, NextSubscription(p, s)
      PROVE  NeverSent' /\ Reserved'
  <2>1. failures' = failures /\ InFlight' = InFlight
    BY <1>0, <1>4, ReservationSteps DEF NextSubscription
  <2> QED
    BY <2>1, <1>0, <1>a
<1>5. ASSUME NEW p \in Pumps, CheckCircuit(p) PROVE NeverSent' /\ Reserved'
  <2>1. CASE CircuitOpen
    <3>1. pc[p] = "check" /\ pc' = [pc EXCEPT ![p] = "next"] /\ failures' = failures
      BY <1>5, <2>1 DEF CheckCircuit
    <3>2. InFlight' = InFlight
      BY <3>1, <1>0, ReservationSteps
    <3> QED
      BY <3>1, <3>2, <1>0, <1>a
  <2>2. CASE ~CircuitOpen
    <3>0. pc[p] = "check" /\ pc' = [pc EXCEPT ![p] = "send"] /\ failures' = failures
      BY <1>5, <2>2 DEF CheckCircuit
    <3>1. InFlight' = InFlight \cup {p} /\ p \notin InFlight /\ failures' = failures
      BY <3>0, <1>0, ReservationSteps
    <3>2. failures <= Threshold - 1 /\ Threshold # 0
      BY <1>0, <2>2 DEF CircuitOpen
    <3> QED
      BY <3>1, <3>2, <1>0 DEF NeverSent, Reserved
  <2> QED
    BY <2>1, <2>2
<1>6. ASSUME NEW p \in Pumps, Succeed(p) \/ FatalDrop(p) PROVE NeverSent' /\ Reserved'
  <2>1. InFlight' = InFlight \ {p} /\ p \in InFlight /\ failures' = 0
    BY <1>0, <1>6, ReservationSteps DEF Succeed, FatalDrop
  <2> QED
    BY <2>1, <1>b, <1>0 DEF NeverSent, Reserved
<1>7. ASSUME NEW p \in Pumps, Fail(p) PROVE NeverSent' /\ Reserved'
  <2>1. CASE failures' = failures + 1 /\ pc' = [pc EXCEPT ![p] = "next"]
    <3>1. pc[p] = "send"
      BY <1>7 DEF Fail
    <3>2. InFlight' = InFlight \ {p} /\ p \in InFlight
      BY <1>0, <3>1, <2>1, ReservationSteps
    <3>3. Cardinality(InFlight') = Cardinality(InFlight) - 1
      BY <3>2, <1>b
    <3>4. Reserved'
      BY <2>1, <3>3, <1>0 DEF Reserved
    <3> QED
      BY <3>2, <3>4, <1>0 DEF NeverSent
  <2>2. CASE failures' = failures /\ pc' = [pc EXCEPT ![p] = "sleep"]
    <3>1. InFlight' = InFlight
      BY <1>0, <1>7, <2>2, ReservationSteps DEF Fail
    <3> QED
      BY <2>2, <3>1, <1>0, <1>a
  <2> QED
    BY <1>7, <2>1, <2>2 DEF Fail
<1>8. ASSUME NEW p \in Pumps, Wake(p) \/ Finish(p) PROVE NeverSent' /\ Reserved'
  BY <1>0, <1>8, <1>a, ReservationSteps DEF Wake, Finish
<1>9. CASE UNCHANGED vars
  BY <1>0, <1>9, <1>a DEF vars, InFlight
<1> QED
  BY <1>1, <1>2, <1>3, <1>4, <1>5, <1>6, <1>7, <1>8, <1>9
  DEF Next, PumpStep

\* The manager's state keeps its types, and the reservations stay bounded.
THEOREM BreakerInvariant == Spec => []BreakerInv
<1>1. Init => BreakerInv
  <2> SUFFICES ASSUME Init PROVE BreakerInv
    OBVIOUS
  <2>1. TypeOK
    BY SomeChosen, WebhookAssumption DEF Init, TypeOK, PumpSteps
  <2>2. InFlight = {} /\ failures = 0
    BY DEF Init, InFlight
  <2> QED
    BY <2>1, <2>2, FS_EmptySet, InFlightFinite, WebhookAssumption
    DEF BreakerInv, NeverSent, Reserved
<1>2. BreakerInv /\ [Next]_vars => BreakerInv'
  BY TypePreserved, BreakerPreserved DEF BreakerInv
<1> QED
  BY <1>1, <1>2, PTL DEF Spec

\* The manager's shared and local state keeps its types.
THEOREM WebhookTypeCorrect == Spec => []TypeOK
<1>1. BreakerInv => TypeOK
  BY DEF BreakerInv
<1> QED
  BY <1>1, BreakerInvariant, PTL

\* consecutive_failures passes the threshold by less than the number of
\* concurrent deliveries, however they interleave.
THEOREM BreakerOvershoot == Spec => []FailuresBounded
<1>1. BreakerInv => FailuresBounded
  BY InFlightFinite, WebhookAssumption DEF BreakerInv, TypeOK, Reserved, FailuresBounded
<1> QED
  BY <1>1, BreakerInvariant, PTL

\* With the breaker open and nothing in flight, only reset_circuit sends again.
THEOREM OpenStaysOpen == Spec => OpenUntilReset
<1> DEFINE Closed == CircuitOpen' /\ InFlight' = {}
<1>1. ASSUME BreakerInv, [Next]_vars, CircuitOpen, InFlight = {}
      PROVE  Closed \/ ResetCircuit
  <2>0. TypeOK /\ failures \in Nat /\ Threshold \in Nat
    BY <1>1, WebhookAssumption DEF BreakerInv, TypeOK
  <2>a. ASSUME failures' = failures, InFlight' = InFlight PROVE Closed
    BY <1>1, <2>a DEF CircuitOpen
  <2>b. \A p \in Pumps : pc[p] \notin {"send", "sleep"}
    BY <1>1 DEF InFlight
  <2>1. ASSUME NEW s \in Subs, Subscribe(s) \/ Unsubscribe(s) PROVE Closed
    <3>1. failures' = failures /\ pc' = pc
      BY <2>1 DEF Subscribe, Unsubscribe
    <3> QED
      BY <3>1, <2>a DEF InFlight
  <2>2. ASSUME NEW p \in Pumps, NEW n \in Notes, DeliverAll(p, n) PROVE Closed
    BY <2>0, <2>2, <2>a, ReservationSteps DEF DeliverAll
  <2>3. ASSUME NEW p \in Pumps, NEW s \in Subs, NextSubscription(p, s) PROVE Closed
    BY <2>0, <2>3, <2>a, ReservationSteps DEF NextSubscription
  <2>4. ASSUME NEW p \in Pumps, CheckCircuit(p) PROVE Closed
    <3>1. pc[p] = "check" /\ pc' = [pc EXCEPT ![p] = "next"] /\ failures' = failures
      BY <1>1, <2>4 DEF CheckCircuit
    <3> QED
      BY <3>1, <2>0, <2>a, ReservationSteps
  <2>5. ASSUME NEW p \in Pumps, Finish(p) PROVE Closed
    BY <2>0, <2>5, <2>a, ReservationSteps DEF Finish
  <2>6. ASSUME NEW p \in Pumps PROVE /\ ~Wake(p) /\ ~Succeed(p) /\ ~FatalDrop(p)
                                     /\ ~Fail(p)
    BY <2>b DEF Wake, Succeed, FatalDrop, Fail
  <2>7. CASE UNCHANGED vars
    BY <2>7, <2>a DEF vars, InFlight
  <2> QED
    BY <1>1, <2>1, <2>2, <2>3, <2>4, <2>5, <2>6, <2>7 DEF Next, PumpStep
<1>2. BreakerInv /\ [Next]_vars
        => [(CircuitOpen /\ InFlight = {}) =>
              (CircuitOpen' /\ InFlight' = {}) \/ ResetCircuit]_vars
  BY <1>1
<1> QED
  BY <1>2, BreakerInvariant, PTL DEF Spec, OpenUntilReset
=============================================================================
