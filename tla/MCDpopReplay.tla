---------------------------- MODULE MCDpopReplay ----------------------------
(* Instances of DpopReplay for TLC. *)
EXTENDS DpopReplay, TLC

\* Proofs, requests and evictors are interchangeable: every property
\* quantifies over all of them.
ReplaySymmetry == Permutations(Jtis) \cup Permutations(Tasks)
=============================================================================
