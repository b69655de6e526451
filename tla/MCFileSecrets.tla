--------------------------- MODULE MCFileSecrets ---------------------------
(***************************************************************************)
(* TLC instances of FileSecrets: the names and values of the secrets and   *)
(* the inodes are interchangeable.                                         *)
(***************************************************************************)
EXTENDS FileSecrets, TLC

Symmetry ==
    Permutations(Names) \cup Permutations(Values) \cup Permutations(Inodes)
=============================================================================
