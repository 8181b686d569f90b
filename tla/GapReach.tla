------------------------------ MODULE GapReach ------------------------------
(***************************************************************************)
(* Which counters a search that examines them upwards from 1, and gives up *)
(* after GapLimit unused ones in a row, can find among the used ones S.    *)
(* The reference definition for SeedDiscovery, and what DepositRecovery    *)
(* and WalletSync use for the result of a whole search.                    *)
(***************************************************************************)
EXTENDS Integers

CONSTANT GapLimit   \* seed_recovery_gap_limit, or a wallet's recovery_lookahead

ASSUME GapLimitAssumption == GapLimit \in Nat

(* A counter is reachable when every run of GapLimit counters below it has *)
(* a used one.                                                             *)
Reachable(S) ==
  {c \in S : \A a \in 0 .. c - 1 : \E u \in S : a < u /\ u <= a + GapLimit}
=============================================================================
