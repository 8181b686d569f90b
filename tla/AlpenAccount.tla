---------------------------- MODULE AlpenAccount ----------------------------
(***************************************************************************)
(* The Alpen side of the CLI (crates/alpen-wallet, cmd/send.rs,            *)
(* cmd/drain.rs, cmd/withdraw.rs): commands that send, drain or withdraw   *)
(* from the one account of the seed, each over several requests to a node  *)
(* whose state moves on between them.                                      *)
(*                                                                         *)
(* The node is external: an account with a balance and a nonce, a pool of  *)
(* transactions that may be executed, dropped or replaced, a gas price     *)
(* that goes up and down, income that arrives.  Balances are in wei.       *)
(* Of the Bitcoin wallet there is the count of revealed addresses, which   *)
(* receive and recover raise too.                                          *)
(***************************************************************************)
EXTENDS GapReach

CONSTANTS
  Procs,          \* invocations that may run at the same time
  SatsToWei,
  Denomination,   \* of the bridge, in sats
  MaxWithdrawal,  \* max_withdrawal_amount_sats, 0 if there is none
  UserAmounts,    \* amounts a user may give, in sats
  Balances,       \* balances the account may start with
  Income,         \* what arrives at once
  GasPrices,
  TransferGas,    \* gas of a transfer to a plain address
  CallGas,        \* gas of a withdrawal, or of a transfer to a contract
  MaxTxs,         \* bound: transactions the node accepts
  MaxIncome,      \* bound: arrivals
  MaxReceived,    \* bound: addresses that receive and recover reveal
  MaxFaults       \* bound: commands and transactions that fail

ASSUME AccountAssumption ==
  /\ {SatsToWei, Denomination, MaxWithdrawal, Income} \subseteq Nat
  /\ {TransferGas, CallGas, MaxTxs, MaxIncome, MaxReceived, MaxFaults} \subseteq Nat
  /\ UNION {UserAmounts, Balances, GasPrices} \subseteq Nat

VARIABLES
  balance,    \* of the account, in the latest block
  nonce,      \* the number of its executed transactions
  gasPrice,   \* what the next block asks for
  income,     \* how often something has arrived
  pool,       \* accepted transactions that wait to be executed
  accepted,   \* how many were accepted
  paid,       \* addresses of the Bitcoin wallet that the bridge has to pay
  revealed,   \* how many of these addresses are revealed on disk
  high,       \* how many ever were
  received,   \* how many of them receive and recover have revealed
  pc,
  job,        \* what a command has read and decided
  overtaken,  \* whether other transactions came with or after a drain's first read
  outrun,     \* whether one came after a command got its nonce
  faults

node == <<balance, nonce, gasPrice, income, pool, accepted, paid>>
wallet == <<revealed, high, received>>
ghosts == <<overtaken, outrun>>
process == <<pc, job, ghosts>>
vars == <<node, wallet, process, faults>>

Kinds == {"send", "drain", "withdraw", "receive"}
Steps == {"idle", "begun", "synced", "balance", "priced", "revealed", "request", "filled", "refused"}

\* seen is the income when the balance was read, or how many addresses were
\* revealed when the wallet was loaded.
NoJob == [kind |-> "none", plain |-> TRUE, amount |-> 0, balance |-> 0, seen |-> 0,
          price |-> 0, gas |-> 0, value |-> 0, nonce |-> 0, address |-> 0]

Jobs == [kind : Kinds \cup {"none"}, plain : BOOLEAN, amount : Nat, balance : Nat,
         seen : Nat, price : Nat, gas : Nat, value : Nat, nonce : Nat,
         address : Nat]

Transactions == [kind : Kinds, plain : BOOLEAN, value : Nat, gas : Nat, price : Nat,
                 nonce : Nat, address : Nat, seen : Nat,
                 undisturbed : BOOLEAN, reported : BOOLEAN]

AccountTypeOK ==
  /\ {balance, nonce, revealed, high} \subseteq Nat
  /\ received \in 0 .. MaxReceived
  /\ gasPrice \in GasPrices
  /\ income \in 0 .. MaxIncome
  /\ pool \subseteq Transactions
  /\ accepted \in 0 .. MaxTxs
  /\ paid \subseteq Nat
  /\ pc \in [Procs -> Steps]
  /\ job \in [Procs -> Jobs]
  /\ overtaken \in [Procs -> BOOLEAN] /\ outrun \in [Procs -> BOOLEAN]
  /\ faults \in 0 .. MaxFaults

-----------------------------------------------------------------------------
(* The node.                                                               *)

Cost(tx) == tx.value + tx.gas * tx.price

\* Mutant: the nonce is that of the latest block.
LatestNonces == {nonce}

\* The next nonce, with the transactions of the pool; there is always one.
PendingNonces ==
  {n \in nonce .. nonce + MaxTxs :
     /\ \A t \in pool : t.nonce # n
     /\ \A m \in nonce .. n - 1 : \E t \in pool : t.nonce = m}

Replaced(tx) == {t \in pool : t.nonce = tx.nonce}

\* A transaction in the pool is replaced by one that pays a higher price.
Accepts(tx) ==
  /\ tx.nonce >= nonce
  /\ balance >= Cost(tx)
  /\ \A t \in Replaced(tx) : t.price < tx.price

Arrive ==
  /\ income < MaxIncome
  /\ income' = income + 1
  /\ balance' = balance + Income
  /\ UNCHANGED <<nonce, gasPrice, pool, accepted, paid, wallet, process, faults>>

PriceMoves ==
  /\ gasPrice' \in GasPrices \ {gasPrice}
  /\ UNCHANGED <<balance, nonce, income, pool, accepted, paid, wallet, process, faults>>

Executable(t) ==
  /\ t.nonce = nonce
  /\ t.price >= gasPrice
  /\ balance >= Cost(t)

\* A transfer to a plain address uses all of its gas; a call may use less.
Execute(t) ==
  /\ t \in pool /\ Executable(t)
  /\ \E used \in 1 .. t.gas :
       /\ t.plain => used = t.gas
       /\ balance' = balance - t.value - used * t.price
  /\ nonce' = nonce + 1
  /\ pool' = pool \ {t}
  /\ paid' = paid \cup ({t.address} \ {0})
  /\ UNCHANGED <<gasPrice, income, accepted, wallet, process, faults>>

\* The call fails: its gas is gone, its value is not.
Revert(t) ==
  /\ t \in pool /\ Executable(t)
  /\ ~t.plain
  /\ faults < MaxFaults
  /\ faults' = faults + 1
  /\ balance' = balance - t.gas * t.price
  /\ nonce' = nonce + 1
  /\ pool' = pool \ {t}
  /\ UNCHANGED <<gasPrice, income, accepted, paid, wallet, process>>

DropFromPool(t) ==
  /\ t \in pool
  /\ faults < MaxFaults
  /\ faults' = faults + 1
  /\ pool' = pool \ {t}
  /\ UNCHANGED <<balance, nonce, gasPrice, income, accepted, paid, wallet, process>>

-----------------------------------------------------------------------------
(* The commands.                                                           *)

Larger(a, b) == IF a >= b THEN a ELSE b

Move(p, from, to, j) ==
  /\ pc[p] = from
  /\ pc' = [pc EXCEPT ![p] = to]
  /\ job' = [job EXCEPT ![p] = j]

\* The steps at which a command relies on what it has read of the account.
Reading == {"balance", "priced", "request", "filled"}

Exit(p) ==
  /\ pc' = [pc EXCEPT ![p] = "idle"]
  /\ job' = [job EXCEPT ![p] = NoJob]
  /\ overtaken' = [overtaken EXCEPT ![p] = FALSE]
  /\ outrun' = [outrun EXCEPT ![p] = FALSE]

\* The amount a user gives, or 0 for none.  A drain comes here when its Bitcoin
\* half, if it has one, has succeeded.
Begin(p) ==
  /\ accepted < MaxTxs
  /\ \E k \in Kinds, plain \in BOOLEAN, a \in UserAmounts \cup {0} :
       /\ k = "send" => a # 0
       /\ k = "drain" => a = 0
       /\ k = "withdraw" => ~plain
       /\ k = "receive" => ~plain /\ a = 0 /\ received < MaxReceived
       /\ Move(p, "idle", "begun", [NoJob EXCEPT !.kind = k, !.plain = plain, !.amount = a])
  /\ UNCHANGED <<node, wallet, ghosts, faults>>

\* A failing request, a lost answer, a panic or a signal.
Fail(p) ==
  /\ pc[p] # "idle"
  /\ faults < MaxFaults
  /\ faults' = faults + 1
  /\ Exit(p)
  /\ UNCHANGED <<node, wallet>>

-----------------------------------------------------------------------------
(* AlpenWallet::drain: three requests, one after the other, before a fourth*)
(* sends.                                                                  *)

\* What is in the pool is not part of the balance.
ReadBalance(p) ==
  /\ job[p].kind = "drain"
  /\ balance > 0
  /\ Move(p, "begun", "balance", [job[p] EXCEPT !.balance = balance, !.seen = income])
  /\ overtaken' = [overtaken EXCEPT ![p] = pool # {}]
  /\ UNCHANGED <<node, wallet, outrun, faults>>

NothingToDrain(p) ==
  /\ pc[p] = "begun" /\ job[p].kind = "drain"
  /\ balance = 0
  /\ Exit(p)
  /\ UNCHANGED <<node, wallet, faults>>

ReadGasPrice(p) ==
  /\ Move(p, "balance", "priced", [job[p] EXCEPT !.price = gasPrice])
  /\ UNCHANGED <<node, wallet, ghosts, faults>>

GasOf(j) == IF j.plain THEN TransferGas ELSE CallGas

\* Mutant: the fee is not reserved.
WholeBalance(j) == j.balance

MaxAlpenDrainValue(j) == j.balance - GasOf(j) * j.price

\* What is left after the fee, if anything is, is the drain's value.
EstimateGas(p) ==
  /\ MaxAlpenDrainValue(job[p]) > 0
  /\ Move(p, "priced", "request",
          [job[p] EXCEPT !.gas = GasOf(job[p]), !.balance = 0,
                         !.value = MaxAlpenDrainValue(job[p])])
  /\ UNCHANGED <<node, wallet, ghosts, faults>>

InsufficientGas(p) ==
  /\ pc[p] = "priced"
  /\ MaxAlpenDrainValue(job[p]) <= 0
  /\ Exit(p)
  /\ UNCHANGED <<node, wallet, faults>>

-----------------------------------------------------------------------------
(* AlpenWallet::send, and withdraw.                                        *)

RequestTransfer(p) ==
  /\ job[p].kind = "send"
  /\ Move(p, "begun", "request", [job[p] EXCEPT !.value = job[p].amount * SatsToWei, !.amount = 0])
  /\ UNCHANGED <<node, wallet, ghosts, faults>>

\* The Bitcoin wallet is loaded and synced first.
SyncWallet(p) ==
  /\ job[p].kind \in {"withdraw", "receive"}
  /\ Move(p, "begun", "synced", [job[p] EXCEPT !.seen = revealed])
  /\ UNCHANGED <<node, wallet, ghosts, faults>>

NextAddress(j) == j.seen + 1

\* What a command persists takes the place of the count on disk, which another
\* one may have raised since this one loaded the wallet.
Reveal(p) ==
  /\ revealed' = NextAddress(job[p])
  /\ high' = Larger(high, NextAddress(job[p]))

\* Mutants: the address is not persisted; one is revealed though the user gave
\* another.
RevealUnsaved(p) ==
  /\ job[p].kind = "withdraw"
  /\ Move(p, "synced", "revealed", [job[p] EXCEPT !.seen = 0, !.address = NextAddress(job[p])])
  /\ UNCHANGED <<node, wallet, ghosts, faults>>

RevealUnasked(p) ==
  /\ job[p].kind = "withdraw"
  /\ Reveal(p)
  /\ Move(p, "synced", "revealed", [job[p] EXCEPT !.seen = 0])
  /\ UNCHANGED <<node, received, ghosts, faults>>

\* The address is on disk after this.
RevealAddress(p) ==
  /\ job[p].kind = "withdraw"
  /\ Reveal(p)
  /\ Move(p, "synced", "revealed", [job[p] EXCEPT !.seen = 0, !.address = NextAddress(job[p])])
  /\ UNCHANGED <<node, received, ghosts, faults>>

GivenAddress(p) ==
  /\ job[p].kind = "withdraw"
  /\ Move(p, "synced", "revealed", [job[p] EXCEPT !.seen = 0])
  /\ UNCHANGED <<node, wallet, ghosts, faults>>

\* receive reveals one address, recover one for every deposit it takes back.
Receive(p) ==
  /\ job[p].kind = "receive"
  /\ received < MaxReceived
  /\ received' = received + 1
  /\ Reveal(p)
  /\ Move(p, "synced", "synced", [job[p] EXCEPT !.seen = NextAddress(job[p])])
  /\ UNCHANGED <<node, ghosts, faults>>

Received(p) ==
  /\ pc[p] = "synced" /\ job[p].kind = "receive"
  /\ Exit(p)
  /\ UNCHANGED <<node, wallet, faults>>

ValidateWithdrawalAmount(sats) ==
  /\ sats > 0 /\ sats % Denomination = 0
  /\ MaxWithdrawal = 0 \/ sats <= MaxWithdrawal

\* Without an amount one denomination is withdrawn.
ResolveWithdrawalAmount(a) == IF a = 0 THEN Denomination ELSE a

WithdrawalRequest(p) ==
  LET sats == ResolveWithdrawalAmount(job[p].amount)
  IN  /\ ValidateWithdrawalAmount(sats)
      /\ Move(p, "revealed", "request", [job[p] EXCEPT !.value = sats * SatsToWei, !.amount = 0])
  /\ UNCHANGED <<node, wallet, ghosts, faults>>

\* The address has been revealed by then.
AmountRefused(p) ==
  /\ pc[p] = "revealed"
  /\ ~ValidateWithdrawalAmount(ResolveWithdrawalAmount(job[p].amount))
  /\ faults < MaxFaults
  /\ faults' = faults + 1
  /\ Exit(p)
  /\ UNCHANGED <<node, wallet>>

-----------------------------------------------------------------------------
(* send_transaction: the provider fills in what the request leaves open,   *)
(* then the node takes it or not.                                          *)

\* Mutant: the price of a drain is left to the filler too.
FilledAnew(j) == [j EXCEPT !.gas = GasOf(j), !.price = gasPrice]

\* A drain has its gas and its price; for another request both are asked for now.
Filled(j) ==
  IF j.kind = "drain" THEN j ELSE [j EXCEPT !.gas = GasOf(j), !.price = gasPrice]

\* The estimate fails if the balance does not cover the value.
Fill(p) ==
  /\ job[p].kind = "drain" \/ balance >= job[p].value
  /\ \E n \in PendingNonces :
       Move(p, "request", "filled", [Filled(job[p]) EXCEPT !.nonce = n])
  /\ UNCHANGED <<node, wallet, ghosts, faults>>

Transaction(p) ==
  [kind |-> job[p].kind, plain |-> job[p].plain, value |-> job[p].value, gas |-> job[p].gas,
   price |-> job[p].price, nonce |-> job[p].nonce, address |-> job[p].address,
   seen |-> job[p].seen, undisturbed |-> job[p].kind = "drain" /\ ~overtaken[p], reported |-> FALSE]

\* The answer may be lost: then the command fails though its transaction stands.
\* To be replaced is a fault of the transaction that was there.
Submit(p) ==
  /\ pc[p] = "filled"
  /\ accepted < MaxTxs /\ Accepts(Transaction(p))
  /\ accepted' = accepted + 1
  /\ \E answered \in BOOLEAN :
       pool' = (pool \ Replaced(Transaction(p)))
                 \cup {[Transaction(p) EXCEPT !.reported = answered]}
  /\ Replaced(Transaction(p)) # {} => faults < MaxFaults
  /\ faults' = faults + (IF Replaced(Transaction(p)) = {} THEN 0 ELSE 1)
  /\ pc' = [pc EXCEPT ![p] = "idle"]
  /\ job' = [job EXCEPT ![p] = NoJob]
  /\ overtaken' = [q \in Procs |->
                     q # p /\ (overtaken[q] \/ (job[q].kind = "drain" /\ pc[q] \in Reading))]
  /\ outrun' = [q \in Procs |-> q # p /\ (outrun[q] \/ pc[q] = "filled")]
  /\ UNCHANGED <<balance, nonce, gasPrice, income, paid, wallet>>

SubmitRefused(p) ==
  /\ pc[p] = "filled"
  /\ ~Accepts(Transaction(p))
  /\ faults < MaxFaults
  /\ faults' = faults + 1
  /\ pc' = [pc EXCEPT ![p] = "refused"]
  /\ UNCHANGED <<node, wallet, job, ghosts>>

End(p) ==
  /\ pc[p] = "refused"
  /\ Exit(p)
  /\ UNCHANGED <<node, wallet, faults>>

Init ==
  /\ balance \in Balances /\ gasPrice \in GasPrices
  /\ nonce = 0 /\ income = 0 /\ pool = {} /\ accepted = 0 /\ paid = {}
  /\ revealed = 0 /\ high = 0 /\ received = 0 /\ faults = 0
  /\ pc = [p \in Procs |-> "idle"]
  /\ job = [p \in Procs |-> NoJob]
  /\ overtaken = [p \in Procs |-> FALSE] /\ outrun = [p \in Procs |-> FALSE]

Node ==
  \/ Arrive \/ PriceMoves
  \/ \E t \in pool : Execute(t) \/ Revert(t) \/ DropFromPool(t)

Drain(p) ==
  \/ ReadBalance(p) \/ NothingToDrain(p) \/ ReadGasPrice(p)
  \/ EstimateGas(p) \/ InsufficientGas(p)

Withdraw(p) ==
  \/ SyncWallet(p) \/ RevealAddress(p) \/ GivenAddress(p)
  \/ WithdrawalRequest(p) \/ AmountRefused(p) \/ Receive(p) \/ Received(p)

SendTransaction(p) == Fill(p) \/ Submit(p) \/ SubmitRefused(p) \/ End(p)

Command(p) ==
  \/ Begin(p) \/ Fail(p)
  \/ Drain(p) \/ RequestTransfer(p) \/ Withdraw(p)
  \/ SendTransaction(p)

Next == Node \/ \E p \in Procs : Command(p)

Spec == Init /\ [][Next]_vars

-----------------------------------------------------------------------------
(* Properties.                                                             *)

\* What has arrived since j read the balance.
Since(j) == (income - j.seen) * Income

\* No two transactions of the pool have the same nonce, and none has an old one.
PoolNonces ==
  /\ \A t \in pool : t.nonce >= nonce
  /\ \A t, u \in pool : t.nonce = u.nonce => t = u

\* The balance a drain has read is that of the account, but for what arrived.
ReadsHold(p) ==
  /\ pool = {}
  /\ pc[p] \in {"balance", "priced"} => balance = job[p].balance + Since(job[p])
  /\ pc[p] \in {"request", "filled"} => balance = Cost(job[p]) + Since(job[p])
  /\ pc[p] = "filled" => job[p].nonce = nonce

(***************************************************************************)
(* The types, and what a command relies on: what a drain that nothing has  *)
(* overtaken has read still holds, a nonce that nothing has outrun is free,*)
(* and the account covers the cost of an undisturbed drain until it is     *)
(* executed, to the wei but for what arrived.                              *)
(***************************************************************************)
AccountInv ==
  /\ AccountTypeOK
  /\ PoolNonces
  /\ \A p \in Procs :
       /\ ~overtaken[p] /\ job[p].kind = "drain" /\ pc[p] \in Reading => ReadsHold(p)
       /\ ~outrun[p] /\ pc[p] = "filled" =>
            job[p].nonce >= nonce /\ Replaced(job[p]) = {}
  /\ \A t \in pool : t.undisturbed =>
       t.nonce = nonce /\ balance = Cost(t) + Since(t)

(***************************************************************************)
(* The node refuses a drain only if another transaction of the account     *)
(* came with or after the drain's first read: neither a rise of the gas    *)
(* price nor income between its requests makes it fail.                    *)
(***************************************************************************)
DrainRefusedOnlyIfOvertaken ==
  \A p \in Procs : pc[p] = "refused" /\ job[p].kind = "drain" => overtaken[p]

(***************************************************************************)
(* "Drained ... from Alpen wallet": an undisturbed drain to a plain address*)
(* leaves what arrived after it had read the balance and not a wei more,   *)
(* whatever the gas price did until it was executed.                       *)
(***************************************************************************)
DrainLeavesArrivals ==
  [][\A t \in pool : Execute(t) /\ t.undisturbed /\ t.plain =>
       balance' = Since(t)]_vars

(***************************************************************************)
(* A transaction that was reported as sent is replaced by another command  *)
(* only if that one, a drain included, had its nonce before the transaction*)
(* was sent.                                                               *)
(***************************************************************************)
ReportedStands ==
  [][\A p \in Procs : Submit(p) =>
       outrun[p] \/ \A t \in Replaced(Transaction(p)) : ~t.reported]_vars

\* Addresses of the wallet that a withdrawal pays, may yet pay or is about to.
Owed ==
  (paid \cup {t.address : t \in pool} \cup {job[p].address : p \in Procs}) \ {0}

(***************************************************************************)
(* An address is on disk before anything is sent to it, through every      *)
(* crash, and every sync asks for it.  It leaves the disk only when a      *)
(* command that had loaded the wallet before it was revealed writes its own*)
(* lower count over it, until the count is back where it was.              *)
(***************************************************************************)
PayoutsRevealed == \A a \in Owed : a <= revealed \/ revealed < high

(***************************************************************************)
(* With fewer failures, and addresses that receive and recover reveal, than*)
(* the gap limit every withdrawal is within reach of a restored wallet's   *)
(* scan: nothing else, not even a count that was written over, leaves an   *)
(* address out that no withdrawal pays.                                    *)
(***************************************************************************)
WithdrawalsReachable == Owed = Reachable(Owed)
=============================================================================
