------------------------- MODULE MCDepositRecovery --------------------------
(* Model checking of DepositRecovery: small delays, few counters. *)
EXTENDS DepositRecovery

MCDeposits == 1 .. MaxCounter
MCDescs == [counter : Deposits, recoverAt : 0 .. RecoverAt(MaxHeight)]
=============================================================================
