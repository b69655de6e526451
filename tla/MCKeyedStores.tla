--------------------------- MODULE MCKeyedStores ---------------------------
(***************************************************************************)
(* TLC instance of KeyedStores: clients, names and objects are             *)
(* interchangeable.                                                        *)
(***************************************************************************)
EXTENDS KeyedStores, TLC

Symmetry == Permutations(Clients) \cup Permutations(Names) \cup Permutations(Objects)
=============================================================================
