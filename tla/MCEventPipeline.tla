-------------------------- MODULE MCEventPipeline --------------------------
(* Instances of the event pipeline for TLC: two interchangeable bots for    *)
(* the safety properties, one bot for the liveness properties.              *)
EXTENDS EventPipeline, TLC

CONSTANTS c1, c2

TwoBots == {c1, c2}
OneBot == {c1}

Symmetry == Permutations(TwoBots)
=============================================================================
