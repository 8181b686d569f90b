---------------------------- MODULE MCWalletSync ----------------------------
(* Model checking of WalletSync: a default cache of one address, a gap limit of two. *)
EXTENDS WalletSync
=============================================================================
