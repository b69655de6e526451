---------------------------- MODULE MCServiceBus ----------------------------
(***************************************************************************)
(* Small instances of ServiceBus for TLC. Goroutines, messages and         *)
(* receivers are interchangeable, so the safety runs use symmetry.         *)
(***************************************************************************)
EXTENDS ServiceBus, TLC

Symmetry ==
    Permutations(Callers) \cup Permutations(Messages) \cup Permutations(Receivers)
=============================================================================
