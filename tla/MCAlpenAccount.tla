--------------------------- MODULE MCAlpenAccount ---------------------------
(* Instances of AlpenAccount for TLC. *)
EXTENDS AlpenAccount, TLC

Symmetry == Permutations(Procs)
=============================================================================
