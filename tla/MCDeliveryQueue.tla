-------------------------- MODULE MCDeliveryQueue --------------------------
(* Instances of DeliveryQueue for TLC. *)
EXTENDS DeliveryQueue, TLC

\* Sound for the safety runs without bad inboxes.
DeliverySymmetry == Permutations(Inboxes) \cup Permutations(Workers)
=============================================================================
