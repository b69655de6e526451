----------------------------- MODULE MCSqsQueue -----------------------------
(***************************************************************************)
(* A small instance of SqsQueue for TLC: goroutines and messages are       *)
(* interchangeable; the DLQ is not configured but found in the policy.     *)
(***************************************************************************)
EXTENDS SqsQueue, TLC

Symmetry == Permutations(Callers) \cup Permutations(Messages)
=============================================================================
