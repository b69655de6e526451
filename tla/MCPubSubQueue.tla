---------------------------- MODULE MCPubSubQueue ----------------------------
(***************************************************************************)
(* Small instances of PubSubQueue for TLC, with both halves of the queue   *)
(* and a dead-letter topic. Goroutines and messages are interchangeable.   *)
(***************************************************************************)
EXTENDS PubSubQueue, TLC

Symmetry == Permutations(Callers) \cup Permutations(Messages)
=============================================================================
