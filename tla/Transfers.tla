------------------------------ MODULE Transfers ------------------------------
(***************************************************************************)
(* Payments from the Bitcoin wallet: send and drain (cmd/send.rs,          *)
(* cmd/drain.rs, crates/bitcoin-wallet/src/transfer.rs), the payment made  *)
(* by deposit (bridge/mod.rs), and the fee rate they use                   *)
(* (lib.rs, get_fee_rate).                                                 *)
(*                                                                         *)
(* A command does not put its own transaction into the wallet: it learns   *)
(* of it, as it learns that one was dropped, when it next syncs.  Coins    *)
(* are numbers: the first InitialCoins are those the wallet has, the change*)
(* of transaction t is coin InitialCoins + t.  A fee is a rate times the   *)
(* number of inputs, and a fee rate the backend estimates has halves,      *)
(* which its client cuts off.                                              *)
(***************************************************************************)
EXTENDS Integers, Sequences, FiniteSets, FiniteSetsExt

CONSTANTS
  Procs,          \* invocations that may run at the same time
  Backends,       \* of "esplora" and "core": those a user may have configured
  Lagging,        \* whether the backend may answer before it has seen its mempool
  InitialCoins,   \* how many confirmed coins the wallet starts with
  CoinValue,      \* what each of them is worth
  Dust,           \* no output may be worth less
  Amounts,        \* amounts a user may send; a deposit is one of them
  ConfiguredCaps, \* values of max_fee_rate_sat_per_vb a user may configure
  UserRates,      \* values of --fee-rate
  Estimates,      \* next-block estimates, in halves of a sat/vB
  MaxTxs,         \* bound: transactions the network accepts
  MaxDrops        \* bound: transactions the mempool drops of itself

ASSUME TransfersAssumption ==
  /\ Backends \subseteq {"esplora", "core"}
  /\ Lagging \in BOOLEAN
  /\ {InitialCoins, CoinValue, Dust, MaxTxs, MaxDrops} \subseteq Nat
  /\ UNION {Amounts, ConfiguredCaps, UserRates, Estimates} \subseteq Nat

VARIABLES
  backend,   \* the configured backend, the same throughout
  cap,       \* the configured maximum of the fee rate
  txs,       \* every transaction the network has accepted
  mempool,   \* those in the mempool
  blocks,    \* those in a block
  stored,    \* those the wallet on disk takes for standing
  pc,
  job,       \* what a process does: its command, what it knows and has read,
             \* what was mined unseen between its two reads, its transaction
  overtaken, \* whether the network changed since a process has synced
  reported,  \* transactions reported as sent
  drops

network == <<txs, mempool, blocks>>
vars == <<backend, cap, network, stored, pc, job, overtaken, reported, drops>>

BroadcastMin == 1
NoTx == [inputs |-> {}, amount |-> 0, fee |-> 0, rate |-> 0, change |-> 0]

NoJob == [kind |-> "none", amount |-> 0, view |-> {}, read |-> {}, missed |-> {}, tx |-> NoTx]

Steps == {"idle", "begun", "scanned", "synced", "built", "sent", "refused"}
Kinds == {"send", "drain", "deposit"}
Ids == 1 .. MaxTxs
Coins == 1 .. InitialCoins + MaxTxs
Wealth == 0 .. InitialCoins * CoinValue
Txs == [inputs : SUBSET Coins, amount : Wealth, fee : Wealth, rate : Nat, change : Wealth]
Drafts == [inputs : SUBSET Coins, amount : Nat, fee : Nat, rate : Nat, change : Nat]

TransfersTypeOK ==
  /\ backend \in Backends
  /\ cap \in ConfiguredCaps
  /\ Len(txs) <= MaxTxs /\ \A t \in DOMAIN txs : txs[t] \in Txs
  /\ mempool \subseteq DOMAIN txs /\ blocks \subseteq DOMAIN txs
  /\ mempool \cap blocks = {}
  /\ stored \subseteq DOMAIN txs
  /\ pc \in [Procs -> Steps]
  /\ job \in [Procs -> [kind : Kinds \cup {"none"}, amount : Amounts \cup {0}, view : SUBSET Ids,
                        read : SUBSET Ids, missed : SUBSET Ids, tx : Drafts]]
  /\ overtaken \in [Procs -> BOOLEAN]
  /\ reported \subseteq DOMAIN txs
  /\ drops \in 0 .. MaxDrops

-----------------------------------------------------------------------------
(* Transactions and coins.                                                 *)

Value == [c \in 1 .. InitialCoins + Len(txs) |->
           IF c <= InitialCoins THEN CoinValue ELSE txs[c - InitialCoins].change]
Worth(S) == SumFunctionOnSet(Value, S)

\* The coins that are there and not spent if the transactions S stand.
Unspent(S) ==
  ((1 .. InitialCoins) \cup {InitialCoins + t : t \in {s \in S : txs[s].change > 0}})
    \ UNION {txs[t].inputs : t \in S}

Parents(t) == {c - InitialCoins : c \in {i \in txs[t].inputs : i > InitialCoins}}
Conflict(t, u) == t # u /\ txs[t].inputs \cap txs[u].inputs # {}

\* S without the transactions that build on one outside of it.
WithParents(S) == UNION {T \in SUBSET S : \A t \in T : Parents(t) \subseteq T}

Alive == mempool \cup blocks

-----------------------------------------------------------------------------
(* The network.                                                            *)

Overtake(S) == overtaken' = [p \in Procs |-> overtaken[p] \/ (p \in S /\ pc[p] # "idle")]

Confirm ==
  /\ \E t \in mempool :
       /\ Parents(t) \subseteq blocks
       /\ mempool' = mempool \ {t}
       /\ blocks' = blocks \cup {t}
  /\ UNCHANGED <<backend, cap, txs, stored, pc, job, overtaken, reported, drops>>

\* The mempool drops a transaction, and with it those that build on it.
DropFromMempool ==
  /\ drops < MaxDrops
  /\ \E t \in mempool : mempool' = WithParents(Alive \ {t}) \ blocks
  /\ drops' = drops + 1
  /\ Overtake(Procs)
  /\ UNCHANGED <<backend, cap, txs, blocks, stored, pc, job, reported>>

-----------------------------------------------------------------------------
(* The commands.                                                           *)

AcceptedCaps == {c \in ConfiguredCaps : c >= BroadcastMin}

Begin(p) ==
  /\ pc[p] = "idle"
  /\ \E k \in Kinds, a \in Amounts \cup {0} :
       /\ (a = 0) = (k = "drain")
       /\ job' = [job EXCEPT ![p] = [NoJob EXCEPT !.kind = k, !.amount = a, !.view = stored]]
  /\ pc' = [pc EXCEPT ![p] = "begun"]
  /\ UNCHANGED <<backend, cap, network, stored, overtaken, reported, drops>>

\* Mutant: what another transaction has replaced is not given up.
KeepsReplaced(known, seen) == known \cup seen

\* Mutant: what the backend does not show is taken for dropped.
ForgetsUnseen(known, seen) == seen

\* A new Emitter expects nothing of the mempool (NO_EXPECTED_MEMPOOL_TXS), so
\* it names none as evicted: what is known stands until another one conflicts
\* with it or with one of those it builds on, as far as these are known.
CoreView(known, seen) ==
  LET all == known \cup seen
      kept == {t \in all : t \in seen \/ \A u \in all : Conflict(t, u) => u \notin seen /\ u < t}
  IN  UNION {T \in SUBSET kept : \A t \in T : Parents(t) \cap all \subseteq T}

\* An Esplora server is asked for every transaction the wallet expects, so that
\* one it does not have is taken for dropped.
EsploraView(known, seen) == seen

ViewAfter(known, seen) ==
  IF backend = "esplora" THEN EsploraView(known, seen) ELSE CoreView(known, seen)

\* Mutant: the coins are chosen from the wallet as it was stored.
SkipsSync(p, seen) ==
  /\ pc' = [pc EXCEPT ![p] = "synced"]
  /\ overtaken' = [overtaken EXCEPT ![p] = FALSE]
  /\ UNCHANGED <<stored, job>>

\* What the backend showed is applied to the wallet and persisted.
Apply(p, seen) ==
  /\ job' = [job EXCEPT ![p] = [NoJob EXCEPT !.kind = job[p].kind, !.amount = job[p].amount,
                                            !.view = ViewAfter(job[p].view, seen),
                                            !.missed = blocks \ seen]]
  /\ stored' = ViewAfter(stored, seen)
  /\ overtaken' = [overtaken EXCEPT ![p] = FALSE]
  /\ pc' = [pc EXCEPT ![p] = "synced"]

\* What a backend shows of its mempool.
Shown == IF Lagging THEN {{}, mempool} ELSE {mempool}

EsploraSync(p) ==
  /\ pc[p] = "begun" /\ backend = "esplora"
  /\ \E pool \in Shown : Apply(p, blocks \cup pool)
  /\ UNCHANGED <<backend, cap, network, reported, drops>>

\* Bitcoin Core is asked for blocks until there is none left...
ReadBlocks(p) ==
  /\ pc[p] = "begun" /\ backend = "core"
  /\ job' = [job EXCEPT ![p].read = blocks]
  /\ pc' = [pc EXCEPT ![p] = "scanned"]
  /\ UNCHANGED <<backend, cap, network, stored, overtaken, reported, drops>>

\* ... and then for its mempool, which no longer has what was mined since.
ReadMempool(p) ==
  /\ pc[p] = "scanned"
  /\ \E pool \in Shown : Apply(p, job[p].read \cup pool)
  /\ UNCHANGED <<backend, cap, network, reported, drops>>

Larger(a, b) == IF a >= b THEN a ELSE b

\* Both backends cut an estimate off to whole sat/vB; one that has no estimate
\* is taken for the minimum.
EstimatedRates == {e \div 2 : e \in Estimates} \cup {BroadcastMin}

\* A rate above the cap is an error and not clamped.
GetFeeRate ==
  {Larger(r, BroadcastMin) : r \in {s \in UserRates \cup EstimatedRates : s <= cap}}

\* Mutant: the fee is added to the change.
PaymentAddsFee(amount, rate, inputs) ==
  LET fee == rate * Cardinality(inputs)
  IN  [inputs |-> inputs, amount |-> amount, rate |-> rate, fee |-> fee,
       change |-> Worth(inputs) - amount + fee]

\* Any selection of coins that pays the amount and the fee; change that would
\* be dust goes to the fee.
Payment(amount, rate, inputs) ==
  LET fee == rate * Cardinality(inputs)
      rest == Worth(inputs) - amount - fee
      change == IF rest >= Dust THEN rest ELSE 0
  IN  [inputs |-> inputs, amount |-> amount, rate |-> rate,
       fee |-> fee + (rest - change), change |-> change]

Affordable(amount, rate, inputs) ==
  amount >= Dust /\ Worth(inputs) >= amount + rate * Cardinality(inputs)

\* A payment that costs more than it delivers is an error.
CheckFeeAgainstAmount(fee, amount) == fee <= amount

BuildTransfer(view, amount, rate) ==
  {x \in {Payment(amount, rate, S) :
            S \in {T \in SUBSET Unspent(view) : Affordable(amount, rate, T)}} :
     CheckFeeAgainstAmount(x.fee, x.amount)}

BuildDrain(view, rate) ==
  LET inputs == Unspent(view)
      fee == rate * Cardinality(inputs)
      amount == Worth(inputs) - fee
  IN  IF amount >= Dust /\ CheckFeeAgainstAmount(fee, amount) /\ inputs # {}
      THEN {[inputs |-> inputs, amount |-> amount, rate |-> rate,
             fee |-> fee, change |-> 0]}
      ELSE {}

\* A deposit is built like a transfer, but its fee is not compared with it.
BuildDepositRequest(view, amount, rate) ==
  {Payment(amount, rate, S) :
     S \in {T \in SUBSET Unspent(view) : Affordable(amount, rate, T)}}

Built(j, rate) ==
  CASE j.kind = "send" -> BuildTransfer(j.view, j.amount, rate)
    [] j.kind = "drain" -> BuildDrain(j.view, rate)
    [] j.kind = "deposit" -> BuildDepositRequest(j.view, j.amount, rate)

Build(p) ==
  /\ pc[p] = "synced"
  /\ \E rate \in GetFeeRate :
       \E x \in Built(job[p], rate) :
         job' = [job EXCEPT ![p] = [NoJob EXCEPT !.kind = job[p].kind,
                                               !.missed = job[p].missed, !.tx = x]]
  /\ pc' = [pc EXCEPT ![p] = "built"]
  /\ UNCHANGED <<backend, cap, network, stored, overtaken, reported, drops>>

\* What the mempool loses if it takes the transaction: those that spend the same
\* coins, and those that build on them.
Replaced(x) ==
  mempool \ WithParents({t \in Alive : txs[t].inputs \cap x.inputs = {}})

\* The node takes a transaction whose coins are there, and one that spends coins
\* of others in the mempool if it pays a higher rate than each (BIP 125).
Accepts(x) ==
  /\ \A c \in x.inputs : c > InitialCoins => c - InitialCoins \in Alive \ Replaced(x)
  /\ \A t \in blocks : txs[t].inputs \cap x.inputs = {}
  /\ \A t \in Replaced(x) : txs[t].rate < x.rate

Leave(p) == pc' = [pc EXCEPT ![p] = "idle"] /\ job' = [job EXCEPT ![p] = NoJob]

\* The transaction is accepted; the answer may be lost, and the command fails.
Broadcast(p) ==
  /\ pc[p] = "built"
  /\ Accepts(job[p].tx) /\ Len(txs) < MaxTxs
  /\ txs' = Append(txs, job[p].tx)
  /\ mempool' = (mempool \ Replaced(job[p].tx)) \cup {Len(txs) + 1}
  /\ Overtake(Procs \ {p})
  /\ \/ /\ pc' = [pc EXCEPT ![p] = "sent"]
        /\ reported' = reported \cup {Len(txs) + 1}
        /\ job' = [job EXCEPT ![p] = [NoJob EXCEPT !.kind = job[p].kind]]
     \/ Leave(p) /\ UNCHANGED reported
  /\ UNCHANGED <<backend, cap, blocks, stored, drops>>

BroadcastRefused(p) ==
  /\ pc[p] = "built"
  /\ ~Accepts(job[p].tx)
  /\ pc' = [pc EXCEPT ![p] = "refused"]
  /\ job' = [job EXCEPT ![p] = NoJob]
  /\ UNCHANGED <<backend, cap, network, stored, overtaken, reported, drops>>

\* The command ends, at any step: with success, an error or a panic.
End(p) ==
  /\ pc[p] # "idle"
  /\ Leave(p)
  /\ overtaken' = [overtaken EXCEPT ![p] = FALSE]
  /\ UNCHANGED <<backend, cap, network, stored, reported, drops>>

Init ==
  /\ backend \in Backends
  /\ cap \in AcceptedCaps
  /\ txs = <<>> /\ mempool = {} /\ blocks = {} /\ stored = {}
  /\ pc = [p \in Procs |-> "idle"]
  /\ job = [p \in Procs |-> NoJob]
  /\ overtaken = [p \in Procs |-> FALSE]
  /\ reported = {} /\ drops = 0

Step(p) ==
  \/ Begin(p) \/ EsploraSync(p) \/ ReadBlocks(p) \/ ReadMempool(p) \/ Build(p)
  \/ Broadcast(p) \/ BroadcastRefused(p) \/ End(p)

Next == Confirm \/ DropFromMempool \/ \E p \in Procs : Step(p)

Spec == Init /\ [][Next]_vars

-----------------------------------------------------------------------------
(* Properties.                                                             *)

\* The network's transactions are there with all they build on.
AliveClosed ==
  /\ \A t \in Alive : Parents(t) \subseteq Alive
  /\ \A t \in blocks : Parents(t) \subseteq blocks

\* The view of the wallet after a sync agrees with the network, but for what
\* was mined between the two reads of Bitcoin Core.
ViewCurrent(p) ==
  /\ Alive \ job[p].missed \subseteq job[p].view
  /\ backend = "esplora" => job[p].view = Alive

\* So does the transaction that is built from it.
BuiltCurrent(p) ==
  /\ \A t \in Alive \ job[p].missed : txs[t].inputs \cap job[p].tx.inputs = {}
  /\ backend = "esplora" =>
       /\ \A c \in job[p].tx.inputs : c > InitialCoins => c - InitialCoins \in Alive
       /\ job[p].kind = "drain" =>
            job[p].tx.inputs = Unspent(Alive) /\ job[p].tx.change = 0

(***************************************************************************)
(* What a command that nothing has overtaken since its sync relies on:     *)
(* what it knows, and then what it built, agrees with the network.  On     *)
(* Bitcoin Core it may lack what was mined between its read of the blocks  *)
(* and its read of the mempool (backend.rs, sync_wallet_with_core), and    *)
(* nothing but that.                                                       *)
(***************************************************************************)
TransfersInv ==
  /\ AliveClosed
  /\ \A p \in Procs : job[p].missed \subseteq blocks /\ (backend = "esplora" => job[p].missed = {})
  /\ \A p \in Procs : ~overtaken[p] =>
       /\ pc[p] = "synced" => ViewCurrent(p)
       /\ pc[p] = "built" => BuiltCurrent(p)

(***************************************************************************)
(* A transaction that was reported as sent is not replaced by a later      *)
(* command, unless that one had synced before the transaction was sent.    *)
(***************************************************************************)
SentStands ==
  [][\A p \in Procs : Broadcast(p) =>
       overtaken[p] \/ reported \cap Replaced(job[p].tx) = {}]_vars

(***************************************************************************)
(* On Esplora a node refuses what was built after a sync only if something *)
(* happened in between: the wallet spends nothing that is gone.            *)
(***************************************************************************)
RefusedOnlyIfOvertaken ==
  \A p \in Procs : pc[p] = "refused" => overtaken[p] \/ backend = "core"

(***************************************************************************)
(* "Drained Bitcoin wallet" (drain): nothing is left then, not the coins   *)
(* of a payment that was dropped either, on Esplora.                       *)
(***************************************************************************)
DrainTakesAll ==
  \A p \in Procs :
    pc[p] = "sent" /\ job[p].kind = "drain" /\ backend = "esplora" =>
      overtaken[p] \/ Unspent(Alive) = {}

(***************************************************************************)
(* No sync of any invocation makes the wallet file forget a transaction    *)
(* that stands: one in a block on either backend, and on Bitcoin Core one  *)
(* in the mempool, also when it is mined between the two reads of the sync.*)
(***************************************************************************)
StandingStaysKnown ==
  [][ /\ stored \cap blocks \subseteq stored'
      /\ backend = "core" => stored \cap Alive \subseteq stored' ]_vars

(***************************************************************************)
(* Coins are neither lost nor counted twice: what the network, the wallet  *)
(* on disk and every command takes for unspent, and what the transactions  *)
(* each of them takes for standing paid away, add up to what the wallet    *)
(* started with.  That is so of every view that has what its transactions  *)
(* build on: one that missed a parent, mined between the two reads of      *)
(* Bitcoin Core, counts the coins the parent spent a second time until     *)
(* the next sync.                                                          *)
(***************************************************************************)
Paid(S) == SumFunctionOnSet([t \in DOMAIN txs |-> txs[t].amount + txs[t].fee], S)

Whole(S) == \A t \in S : Parents(t) \subseteq S

MoneyConserved ==
  \A V \in {Alive, stored} \cup {job[p].view : p \in Procs} :
    Whole(V) => Worth(Unspent(V)) + Paid(V) = InitialCoins * CoinValue
=============================================================================
