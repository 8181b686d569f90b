-------------------------- MODULE MCSeedDiscovery ---------------------------
(* Model checking of SeedDiscovery; every set of used counters is tried. *)
EXTENDS SeedDiscovery
=============================================================================
