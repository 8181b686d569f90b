---------------------------- MODULE BitcoinChain ----------------------------
(***************************************************************************)
(* The Bitcoin network as the deposit and recover commands see it through  *)
(* a backend: the height, and for every reclaim counter the life of the    *)
(* output a deposit request with that counter creates.  External code: the *)
(* model is what the calls in src/ rely on.                                *)
(*                                                                         *)
(*   none -> mempool -> confirmed -> pending -> reclaimed                  *)
(*                          \----------\------> claimed                    *)
(*                                                                         *)
(* "pending" is an output whose reclaim waits in the mempool; "claimed" is *)
(* one the bridge operators have taken into Alpen.  The mempool may drop   *)
(* either transaction.                                                     *)
(***************************************************************************)
EXTENDS Integers, FiniteSets

CONSTANTS
  Deposits,        \* the counters a deposit request can use
  RecoveryDelay,   \* relative timelock of the reclaim path: older(delay)
  MaxHeight,       \* bound: the last block
  ConfirmBy,       \* bound: no deposit confirms in a later block
  ConfirmWindow,   \* blocks from the tip a request was built on until it is
                   \* in a block or dropped
  ReclaimsStay     \* whether the mempool keeps every reclaim

VARIABLES
  height,
  status,
  builtAt,         \* of a deposit in the mempool: the tip it was built on
  confirmedAt      \* of a deposit in a block that is not spent in one

chainVars == <<height, status, builtAt, confirmedAt>>

Statuses == {"none", "mempool", "confirmed", "pending", "reclaimed", "claimed"}

ChainTypeOK ==
  /\ height \in 0 .. MaxHeight
  /\ status \in [Deposits -> Statuses]
  /\ builtAt \in [Deposits -> 0 .. MaxHeight]
  /\ confirmedAt \in [Deposits -> 0 .. MaxHeight]

ChainInit ==
  /\ height = 0
  /\ status = [c \in Deposits |-> "none"]
  /\ builtAt = [c \in Deposits |-> 0]
  /\ confirmedAt = [c \in Deposits |-> 0]

With(s) == {c \in Deposits : status[c] = s}

\* Counters whose script has history: what scan_scripts reports as used.
UsedCounters == Deposits \ With("none")

\* A request that is out and whose output nobody has spent for good.
Outstanding == With("mempool") \cup With("confirmed") \cup With("pending")

-----------------------------------------------------------------------------

\* A block confirms deposits D and reclaims R, and nothing overdue is left.
MineBlock(D, R) ==
  /\ height < MaxHeight
  /\ D # {} => height < ConfirmBy
  /\ \A c \in With("mempool") \ D : height + 1 < builtAt[c] + ConfirmWindow
  /\ height' = height + 1
  /\ status' = [c \in Deposits |-> IF c \in D THEN "confirmed"
                                   ELSE IF c \in R THEN "reclaimed"
                                   ELSE status[c]]
  /\ builtAt' = [c \in Deposits |-> IF c \in D THEN 0 ELSE builtAt[c]]
  /\ confirmedAt' = [c \in Deposits |-> IF c \in D THEN height + 1
                                        ELSE IF c \in R THEN 0
                                        ELSE confirmedAt[c]]

DropDeposit(c) ==
  /\ status[c] = "mempool"
  /\ status' = [status EXCEPT ![c] = "none"]
  /\ builtAt' = [builtAt EXCEPT ![c] = 0]
  /\ UNCHANGED <<height, confirmedAt>>

DropReclaim(c) ==
  /\ ~ ReclaimsStay
  /\ status[c] = "pending"
  /\ status' = [status EXCEPT ![c] = "confirmed"]
  /\ UNCHANGED <<height, builtAt, confirmedAt>>

\* The operators' spend is in a block, a waiting reclaim is void.
BridgeClaims(c) ==
  /\ status[c] \in {"confirmed", "pending"}
  /\ status' = [status EXCEPT ![c] = "claimed"]
  /\ confirmedAt' = [confirmedAt EXCEPT ![c] = 0]
  /\ UNCHANGED <<height, builtAt>>

-----------------------------------------------------------------------------

\* The network accepts a deposit request built on the given tip. An output the counter
\* had before is not followed any more.
AcceptDeposit(c, tip) ==
  /\ status' = [status EXCEPT ![c] = "mempool"]
  /\ builtAt' = [builtAt EXCEPT ![c] = tip]
  /\ confirmedAt' = [confirmedAt EXCEPT ![c] = 0]
  /\ UNCHANGED height

\* The reclaim path's condition: the relative timelock (BIP 68), which holds for a
\* transaction that may be in the next block.
ReclaimCondition(c) == height + 1 >= confirmedAt[c] + RecoveryDelay

\* A node takes a reclaim of an unspent output that meets it, and no other.
ReclaimValid(c) == status[c] = "confirmed" /\ ReclaimCondition(c)

AcceptReclaim(c) ==
  /\ ReclaimValid(c)
  /\ status' = [status EXCEPT ![c] = "pending"]
  /\ UNCHANGED <<height, builtAt, confirmedAt>>
=============================================================================
