----------------------------- MODULE MCTransfers -----------------------------
(* Model checking of Transfers: two coins, two transactions. *)
EXTENDS Transfers, TLC

Symmetry == Permutations(Procs)
=============================================================================
