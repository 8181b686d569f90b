---------------------------- MODULE MCSeedVault -----------------------------
(* Model checking of SeedVault. *)
EXTENDS SeedVault
=============================================================================
