------------------------- MODULE AlpenAccountProofs --------------------------
(***************************************************************************)
(* Proofs about AlpenAccount, for any number of processes, balances,       *)
(* amounts, gas and prices.  What carries them is AccountInv: while        *)
(* nothing has overtaken a command, the pool is as it was when the command *)
(* read it and the balance has only grown by what arrived.                 *)
(***************************************************************************)
EXTENDS AlpenAccount, FiniteSetTheorems, TLAPS

-----------------------------------------------------------------------------
(* Types.                                                                  *)

(* The gas that is used costs no more than the gas that is reserved.       *)
LEMMA UsedGas ==
  ASSUME NEW g \in Nat, NEW u \in 0 .. g, NEW p \in Nat
  PROVE  u * p \in Nat /\ g * p \in Nat /\ u * p <= g * p
<1>1. g * p = u * p + (g - u) * p
  OBVIOUS
<1>2. u * p \in Nat /\ (g - u) * p \in Nat
  OBVIOUS
<1> QED
  BY <1>1, <1>2

LEMMA CostNat ==
  ASSUME NEW tx, tx.value \in Nat, tx.gas \in Nat, tx.price \in Nat
  PROVE  Cost(tx) \in Nat /\ Cost(tx) >= tx.gas * tx.price /\ tx.gas * tx.price \in Nat
<1>1. tx.gas * tx.price \in Nat
  OBVIOUS
<1> QED
  BY <1>1 DEF Cost

(* A command's own step: what it writes down has the type of a job.        *)
LEMMA MoveTyped ==
  ASSUME AccountTypeOK, NEW p \in Procs, NEW from, NEW to \in Steps, NEW j \in Jobs,
         Move(p, from, to, j)
  PROVE  pc' \in [Procs -> Steps] /\ job' \in [Procs -> Jobs]
BY DEF AccountTypeOK, Move

LEMMA ExitTyped ==
  ASSUME AccountTypeOK, NEW p \in Procs, Exit(p)
  PROVE  /\ pc' \in [Procs -> Steps] /\ job' \in [Procs -> Jobs]
         /\ overtaken' \in [Procs -> BOOLEAN] /\ outrun' \in [Procs -> BOOLEAN]
<1>1. NoJob \in Jobs
  BY DEF NoJob, Jobs
<1> QED
  BY <1>1 DEF AccountTypeOK, Exit, Steps

LEMMA GasNat == \A j : GasOf(j) \in Nat
BY AccountAssumption DEF GasOf

LEMMA TransactionTyped ==
  ASSUME AccountTypeOK, NEW p \in Procs, job[p].kind \in Kinds, NEW answered \in BOOLEAN
  PROVE  /\ Transaction(p) \in Transactions
         /\ [Transaction(p) EXCEPT !.reported = answered] \in Transactions
<1>1. job[p] \in Jobs
  BY DEF AccountTypeOK
<1>2. (job[p].kind = "drain" /\ ~overtaken[p]) \in BOOLEAN
  OBVIOUS
<1> QED
  BY <1>1, <1>2 DEF Jobs, Transaction, Transactions

(* A command that runs has a kind.                                         *)
KindsKnown == \A p \in Procs : pc[p] # "idle" => job[p].kind \in Kinds

TypeInv == AccountTypeOK /\ KindsKnown

LEMMA InitTyped == Init => TypeInv
<1> SUFFICES ASSUME Init PROVE TypeInv
  OBVIOUS
<1>1. NoJob \in Jobs
  BY DEF NoJob, Jobs
<1> QED
  BY <1>1, AccountAssumption DEF Init, TypeInv, AccountTypeOK, KindsKnown, Steps

(* The node's steps.                                                       *)
LEMMA NodeTyped == TypeInv /\ Node => TypeInv'
<1> SUFFICES ASSUME TypeInv, Node PROVE TypeInv'
  OBVIOUS
<1> USE DEF TypeInv, KindsKnown, AccountTypeOK, process, ghosts, wallet
<1>1. ASSUME Arrive PROVE TypeInv'
  BY <1>1, AccountAssumption DEF Arrive
<1>2. ASSUME PriceMoves PROVE TypeInv'
  BY <1>2 DEF PriceMoves
<1>3. ASSUME NEW t \in pool, Execute(t) PROVE TypeInv'
  <2>1. PICK used \in 1 .. t.gas : balance' = balance - t.value - used * t.price
    BY <1>3 DEF Execute
  <2>2. t.value \in Nat /\ t.gas \in Nat /\ t.price \in Nat /\ t.address \in Nat
    BY DEF Transactions
  <2>3. used * t.price \in Nat /\ used * t.price <= t.gas * t.price /\ t.gas * t.price \in Nat
    BY <2>2, UsedGas
  <2>4. balance' \in Nat
    BY <1>3, <2>1, <2>2, <2>3 DEF Execute, Executable, Cost
  <2> QED
    <3>1. paid' \subseteq Nat
      BY <1>3, <2>2 DEF Execute
    <3>2. nonce' \in Nat /\ pool' \subseteq Transactions
      BY <1>3 DEF Execute
    <3> QED
      BY <1>3, <2>4, <3>1, <3>2 DEF Execute
<1>4. ASSUME NEW t \in pool, Revert(t) PROVE TypeInv'
  <2>1. t.value \in Nat /\ t.gas \in Nat /\ t.price \in Nat
    BY DEF Transactions
  <2>2. t.gas * t.price \in Nat
    BY <2>1
  <2>3. balance' \in Nat
    BY <1>4, <2>1, <2>2 DEF Revert, Executable, Cost
  <2> QED
    BY <1>4, <2>3, AccountAssumption DEF Revert
<1>5. ASSUME NEW t \in pool, DropFromPool(t) PROVE TypeInv'
  BY <1>5, AccountAssumption DEF DropFromPool
<1> QED
  BY <1>1, <1>2, <1>3, <1>4, <1>5 DEF Node

(* The step of a command that only moves on, with a job of the same kind.  *)
LEMMA MovedTyped ==
  ASSUME TypeInv, NEW p \in Procs, NEW from, NEW to \in Steps, NEW j \in Jobs,
         Move(p, from, to, j), j.kind \in Kinds, UNCHANGED <<node, faults>>,
         {revealed', high'} \subseteq Nat, received' \in 0 .. MaxReceived,
         overtaken' \in [Procs -> BOOLEAN], outrun' \in [Procs -> BOOLEAN]
  PROVE  TypeInv'
<1>1. pc' \in [Procs -> Steps] /\ job' \in [Procs -> Jobs]
  BY MoveTyped DEF TypeInv
<1>2. KindsKnown'
  BY DEF TypeInv, KindsKnown, Move, AccountTypeOK
<1> QED
  BY <1>1, <1>2 DEF TypeInv, AccountTypeOK, node

(* A command that ends.                                                    *)
LEMMA ExitedTyped ==
  ASSUME TypeInv, NEW p \in Procs, Exit(p), UNCHANGED <<node, wallet>>,
         faults' \in 0 .. MaxFaults
  PROVE  TypeInv'
<1>1. /\ pc' \in [Procs -> Steps] /\ job' \in [Procs -> Jobs]
      /\ overtaken' \in [Procs -> BOOLEAN] /\ outrun' \in [Procs -> BOOLEAN]
  BY ExitTyped DEF TypeInv
<1>2. KindsKnown'
  BY DEF TypeInv, KindsKnown, Exit, AccountTypeOK
<1> QED
  BY <1>1, <1>2 DEF TypeInv, AccountTypeOK, node, wallet

LEMMA CommandTyped ==
  ASSUME TypeInv, NEW p \in Procs, Command(p)
  PROVE  TypeInv'
<1> USE DEF Steps, wallet, ghosts
<1>1. job[p] \in Jobs /\ faults \in 0 .. MaxFaults /\ balance \in Nat /\ revealed \in Nat
      /\ income \in Nat /\ nonce \in Nat /\ gasPrice \in Nat
      /\ high \in Nat /\ received \in 0 .. MaxReceived
      /\ overtaken \in [Procs -> BOOLEAN] /\ outrun \in [Procs -> BOOLEAN]
  BY AccountAssumption DEF TypeInv, AccountTypeOK
<1>2. pc[p] # "idle" => job[p].kind \in Kinds
  BY DEF TypeInv, KindsKnown
<1>3. ASSUME Begin(p) PROVE TypeInv'
  <2>1. PICK k \in Kinds, plain \in BOOLEAN, a \in UserAmounts \cup {0} :
          Move(p, "idle", "begun", [NoJob EXCEPT !.kind = k, !.plain = plain, !.amount = a])
    BY <1>3 DEF Begin
  <2>2. [NoJob EXCEPT !.kind = k, !.plain = plain, !.amount = a] \in Jobs
    <3>1. a \in Nat
      BY AccountAssumption
    <3> QED
      BY <3>1 DEF NoJob, Jobs
  <2>3. [NoJob EXCEPT !.kind = k, !.plain = plain, !.amount = a].kind = k
    BY DEF NoJob
  <2>4. k \in Kinds
    OBVIOUS
  <2> DEFINE j == [NoJob EXCEPT !.kind = k, !.plain = plain, !.amount = a]
  <2> HIDE DEF j
  <2>5. Move(p, "idle", "begun", j) /\ j \in Jobs /\ j.kind \in Kinds
    BY <2>1, <2>2, <2>3, <2>4 DEF j
  <2> QED
    BY <1>1, <1>3, <2>5, MovedTyped DEF Begin
<1>4. ASSUME ReadBalance(p) PROVE TypeInv'
  <2>1. [job[p] EXCEPT !.balance = balance, !.seen = income] \in Jobs
    BY <1>1 DEF Jobs
  <2>2. overtaken' \in [Procs -> BOOLEAN]
    BY <1>1, <1>4 DEF ReadBalance
  <2> QED
    BY <1>1, <1>4, <2>1, <2>2, MovedTyped DEF ReadBalance, Kinds, Jobs
<1>5. ASSUME ReadGasPrice(p) PROVE TypeInv'
  <2>1. [job[p] EXCEPT !.price = gasPrice] \in Jobs
    BY <1>1 DEF Jobs
  <2>2. job[p].kind \in Kinds
    BY <1>2, <1>5 DEF ReadGasPrice, Move
  <2> QED
    BY <1>1, <1>5, <2>1, <2>2, MovedTyped DEF ReadGasPrice, Jobs
<1>6. ASSUME EstimateGas(p) PROVE TypeInv'
  <2> DEFINE j == [job[p] EXCEPT !.gas = GasOf(job[p]), !.balance = 0,
                                 !.value = MaxAlpenDrainValue(job[p])]
  <2>1. GasOf(job[p]) * job[p].price \in Nat
    BY <1>1, GasNat DEF Jobs
  <2>2. j \in Jobs
    <3>1. MaxAlpenDrainValue(job[p]) \in Nat
      BY <1>1, <1>6, <2>1 DEF EstimateGas, MaxAlpenDrainValue, Jobs
    <3> QED
      BY <1>1, <3>1, GasNat DEF Jobs
  <2>3. job[p].kind \in Kinds
    BY <1>2, <1>6 DEF EstimateGas, Move
  <2>4. j.kind = job[p].kind
    BY <1>1 DEF Jobs
  <2> QED
    BY <1>1, <1>6, <2>2, <2>3, <2>4, MovedTyped DEF EstimateGas
<1>7. ASSUME RequestTransfer(p) PROVE TypeInv'
  <2>1. job[p].amount * SatsToWei \in Nat
    BY <1>1, AccountAssumption DEF Jobs
  <2>2. [job[p] EXCEPT !.value = job[p].amount * SatsToWei, !.amount = 0] \in Jobs
    BY <1>1, <2>1 DEF Jobs
  <2> QED
    BY <1>1, <1>7, <2>2, MovedTyped DEF RequestTransfer, Kinds, Jobs
<1>8. ASSUME SyncWallet(p) PROVE TypeInv'
  <2>1. [job[p] EXCEPT !.seen = revealed] \in Jobs
    BY <1>1 DEF Jobs
  <2> QED
    BY <1>1, <1>8, <2>1, MovedTyped DEF SyncWallet, Kinds, Jobs
<1>9. ASSUME RevealAddress(p) PROVE TypeInv'
  <2>1. NextAddress(job[p]) \in Nat
    BY <1>1 DEF Jobs, NextAddress
  <2>2. [job[p] EXCEPT !.seen = 0, !.address = NextAddress(job[p])] \in Jobs
    BY <1>1, <2>1 DEF Jobs
  <2>3. revealed' \in Nat /\ high' \in Nat
    BY <1>1, <1>9, <2>1 DEF RevealAddress, Reveal, Larger
  <2>4. job[p].kind \in Kinds
    BY <1>2, <1>9 DEF RevealAddress, Move
  <2> QED
    BY <1>1, <1>9, <2>2, <2>3, <2>4, MovedTyped DEF RevealAddress, Jobs
<1>10. ASSUME GivenAddress(p) PROVE TypeInv'
  <2>1. [job[p] EXCEPT !.seen = 0] \in Jobs
    BY <1>1 DEF Jobs
  <2>2. job[p].kind \in Kinds
    BY <1>2, <1>10 DEF GivenAddress, Move
  <2> QED
    BY <1>1, <1>10, <2>1, <2>2, MovedTyped DEF GivenAddress, Jobs
<1>11. ASSUME WithdrawalRequest(p) PROVE TypeInv'
  <2> DEFINE sats == ResolveWithdrawalAmount(job[p].amount)
  <2>1. sats \in Nat
    BY <1>1, AccountAssumption DEF Jobs, ResolveWithdrawalAmount
  <2>2. sats * SatsToWei \in Nat
    BY <2>1, AccountAssumption
  <2>3. [job[p] EXCEPT !.value = sats * SatsToWei, !.amount = 0] \in Jobs
    BY <1>1, <2>2 DEF Jobs
  <2>4. job[p].kind \in Kinds
    BY <1>2, <1>11 DEF WithdrawalRequest, Move
  <2> QED
    BY <1>1, <1>11, <2>3, <2>4, MovedTyped DEF WithdrawalRequest, Jobs
<1>16. ASSUME Receive(p) PROVE TypeInv'
  <2>1. NextAddress(job[p]) \in Nat
    BY <1>1 DEF Jobs, NextAddress
  <2>2. [job[p] EXCEPT !.seen = NextAddress(job[p])] \in Jobs
    BY <1>1, <2>1 DEF Jobs
  <2>3. revealed' \in Nat /\ high' \in Nat
    BY <1>1, <1>16, <2>1 DEF Receive, Reveal, Larger
  <2>4. received' \in 0 .. MaxReceived
    BY <1>1, <1>16, AccountAssumption DEF Receive
  <2>5. job[p].kind \in Kinds
    BY <1>2, <1>16 DEF Receive, Move
  <2> QED
    BY <1>1, <1>16, <2>2, <2>3, <2>4, <2>5, MovedTyped DEF Receive, Jobs
<1>12. ASSUME Fill(p) PROVE TypeInv'
  <2>1. PICK n \in PendingNonces :
          Move(p, "request", "filled", [Filled(job[p]) EXCEPT !.nonce = n])
    BY <1>12 DEF Fill
  <2>2. n \in Nat
    BY <1>1, AccountAssumption DEF PendingNonces
  <2>3. Filled(job[p]) \in Jobs /\ Filled(job[p]).kind = job[p].kind
    BY <1>1, GasNat DEF Filled, Jobs
  <2>4. [Filled(job[p]) EXCEPT !.nonce = n] \in Jobs
    BY <2>2, <2>3 DEF Jobs
  <2>5. job[p].kind \in Kinds
    BY <1>2, <2>1 DEF Move
  <2>6. overtaken' \in [Procs -> BOOLEAN] /\ outrun' \in [Procs -> BOOLEAN]
    BY <1>1, <1>12 DEF Fill
  <2> QED
    BY <1>1, <1>12, <2>1, <2>3, <2>4, <2>5, <2>6, MovedTyped DEF Fill, Jobs
<1>13. ASSUME Submit(p) PROVE TypeInv'
  <2>1. job[p].kind \in Kinds
    BY <1>2, <1>13 DEF Submit
  <2>2. PICK answered \in BOOLEAN :
          pool' = (pool \ Replaced(Transaction(p)))
                    \cup {[Transaction(p) EXCEPT !.reported = answered]}
    BY <1>13 DEF Submit
  <2>3. pool' \subseteq Transactions
    BY <2>1, <2>2, TransactionTyped DEF TypeInv, AccountTypeOK
  <2>4. faults' \in 0 .. MaxFaults /\ accepted' \in 0 .. MaxTxs
    BY <1>1, <1>13, AccountAssumption DEF Submit, TypeInv, AccountTypeOK
  <2>5. NoJob \in Jobs
    BY DEF NoJob, Jobs
  <2>6. overtaken' \in [Procs -> BOOLEAN] /\ outrun' \in [Procs -> BOOLEAN]
    BY <1>1, <1>13 DEF Submit
  <2>7. pc' \in [Procs -> Steps] /\ job' \in [Procs -> Jobs] /\ KindsKnown'
    BY <1>13, <2>5 DEF Submit, TypeInv, AccountTypeOK, KindsKnown
  <2> QED
    BY <1>13, <2>3, <2>4, <2>6, <2>7 DEF Submit, TypeInv, AccountTypeOK
<1>14. ASSUME SubmitRefused(p) PROVE TypeInv'
  <2>1. faults' \in 0 .. MaxFaults /\ pc' \in [Procs -> Steps]
    BY <1>1, <1>14, AccountAssumption DEF SubmitRefused, TypeInv, AccountTypeOK
  <2>2. KindsKnown'
    BY <1>2, <1>14 DEF SubmitRefused, TypeInv, KindsKnown, AccountTypeOK
  <2> QED
    BY <1>14, <2>1, <2>2 DEF SubmitRefused, TypeInv, AccountTypeOK, node
<1>15. ASSUME \/ Fail(p) \/ NothingToDrain(p) \/ InsufficientGas(p)
              \/ AmountRefused(p) \/ End(p) \/ Received(p)
       PROVE  TypeInv'
  <2>1. faults' \in 0 .. MaxFaults
    BY <1>1, <1>15, AccountAssumption
       DEF Fail, NothingToDrain, InsufficientGas, AmountRefused, End, Received
  <2>2. Exit(p) /\ UNCHANGED <<node, wallet>>
    BY <1>15 DEF Fail, NothingToDrain, InsufficientGas, AmountRefused, End, Received
  <2> QED
    BY <2>1, <2>2, ExitedTyped
<1> QED
  BY <1>3, <1>4, <1>5, <1>6, <1>7, <1>8, <1>9, <1>10, <1>11, <1>12, <1>13, <1>14, <1>15, <1>16
     DEF Command, Drain, Withdraw, SendTransaction

LEMMA Typed == Spec => []TypeInv
<1>1. TypeInv /\ [Next]_vars => TypeInv'
  <2>1. ASSUME TypeInv, UNCHANGED vars PROVE TypeInv'
    BY <2>1 DEF vars, node, process, wallet, ghosts, TypeInv, AccountTypeOK, KindsKnown
  <2> QED
    BY <2>1, NodeTyped, CommandTyped DEF Next
<1> QED
  BY <1>1, InitTyped, PTL DEF Spec

(***************************************************************************)
(* The variables keep their types; in particular neither the balance nor a *)
(* value that a drain computes is ever negative.                           *)
(***************************************************************************)
THEOREM AccountTyped == Spec => []AccountTypeOK
BY Typed, PTL DEF TypeInv

-----------------------------------------------------------------------------
(* Safety.                                                                 *)

(* What the invariants say of one command, and of the pool.                *)
ProcInv(p) ==
  /\ ~overtaken[p] /\ job[p].kind = "drain" /\ pc[p] \in Reading => ReadsHold(p)
  /\ ~outrun[p] /\ pc[p] = "filled" => job[p].nonce >= nonce /\ Replaced(job[p]) = {}
  /\ pc[p] = "refused" /\ job[p].kind = "drain" => overtaken[p]
  /\ job[p].kind = "drain" /\ pc[p] \in Reading => job[p].seen <= income
  /\ pc[p] = "synced" => job[p].kind \in {"withdraw", "receive"}
  /\ pc[p] = "revealed" => job[p].kind = "withdraw"

PoolCovered ==
  \A t \in pool : t.undisturbed => t.nonce = nonce /\ balance = Cost(t) + Since(t)

(* The inductive invariant.                                                *)
IInv == PoolNonces /\ PoolCovered /\ \A p \in Procs : ProcInv(p)

LEMMA IInvImplies == TypeInv /\ IInv => AccountInv /\ DrainRefusedOnlyIfOvertaken
BY DEF TypeInv, IInv, ProcInv, PoolCovered, AccountInv, DrainRefusedOnlyIfOvertaken

LEMMA InitInv == Init => IInv
BY DEF Init, IInv, PoolNonces, PoolCovered, ProcInv, Reading

(* A command keeps what it relies on while neither it nor the account moves.*)
LEMMA StaysInv ==
  ASSUME NEW q \in Procs, ProcInv(q), UNCHANGED <<balance, nonce, income, pool>>,
         pc'[q] = pc[q], job'[q] = job[q], overtaken'[q] = overtaken[q], outrun'[q] = outrun[q]
  PROVE  ProcInv(q)'
BY DEF ProcInv, ReadsHold, Replaced, Since, Cost

LEMMA PoolStays ==
  ASSUME PoolNonces, PoolCovered, UNCHANGED <<balance, nonce, income, pool>>
  PROVE  PoolNonces' /\ PoolCovered'
BY DEF PoolNonces, PoolCovered, Since, Cost

(* What arrives is all that is added to the balance.                       *)
LEMMA OneMore ==
  ASSUME NEW a \in Nat, NEW b \in Nat, NEW c \in Nat
  PROVE  (a + 1 - b) * c = (a - b) * c + c
OBVIOUS

LEMMA ArriveInv == TypeInv /\ IInv /\ Arrive => IInv'
<1> SUFFICES ASSUME TypeInv, IInv, Arrive PROVE IInv'
  OBVIOUS
<1>1. ASSUME NEW s \in Nat
      PROVE  /\ (income' - s) * Income = (income - s) * Income + Income
             /\ (income - s) * Income \in Int
  <2>1. income \in Nat /\ Income \in Nat /\ income' = income + 1
    BY AccountAssumption DEF Arrive, TypeInv, AccountTypeOK
  <2> QED
    BY <2>1, OneMore
<1>2. balance \in Nat /\ Income \in Nat /\ balance' = balance + Income
  BY AccountAssumption DEF Arrive, TypeInv, AccountTypeOK
<1>3. ASSUME NEW p \in Procs PROVE ProcInv(p)'
  <2>1. job[p] \in Jobs /\ job' = job /\ pc' = pc /\ pool' = pool /\ nonce' = nonce
    BY DEF TypeInv, AccountTypeOK, Arrive, process
  <2>2. Since(job[p])' = Since(job[p]) + Income /\ Since(job[p]) \in Int
    BY <1>1, <2>1 DEF Jobs, Since
  <2>3. Cost(job[p]) \in Nat /\ Cost(job[p])' = Cost(job[p]) /\ job[p].balance \in Nat
    BY <2>1, CostNat DEF Jobs, Cost
  <2>4. ReadsHold(p) => ReadsHold(p)'
    BY <1>2, <2>1, <2>2, <2>3 DEF ReadsHold
  <2>5. job[p].seen <= income => job[p].seen <= income'
    BY <2>1 DEF Jobs, Arrive, TypeInv, AccountTypeOK
  <2>6. /\ job'[p] = job[p] /\ pc'[p] = pc[p] /\ overtaken'[p] = overtaken[p]
        /\ outrun'[p] = outrun[p]
        /\ nonce' = nonce /\ Replaced(job[p])' = Replaced(job[p]) /\ ProcInv(p)
    BY DEF Arrive, process, ghosts, IInv, Replaced
  <2> QED
    BY <2>4, <2>5, <2>6 DEF ProcInv
<1>4. PoolCovered'
  <2> SUFFICES ASSUME NEW t \in pool, t.undisturbed
               PROVE  t.nonce = nonce /\ balance' = Cost(t) + (income' - t.seen) * Income
    BY DEF PoolCovered, Arrive, Since, Cost
  <2>1. t \in Transactions
    BY DEF TypeInv, AccountTypeOK
  <2>2. Cost(t) \in Nat /\ t.seen \in Nat
    BY <2>1, CostNat DEF Transactions
  <2>3. t.nonce = nonce /\ balance = Cost(t) + (income - t.seen) * Income
    BY DEF IInv, PoolCovered, Since
  <2> QED
    BY <1>1, <1>2, <2>2, <2>3
<1>5. PoolNonces'
  BY DEF IInv, PoolNonces, Arrive
<1> QED
  BY <1>3, <1>4, <1>5 DEF IInv

(* A transaction leaves the pool: the only one that may is the one whose   *)
(* turn it is, or it is dropped.                                           *)
LEMMA LeavesInv ==
  ASSUME TypeInv, IInv, NEW t \in pool, pool' = pool \ {t}, UNCHANGED <<income, process>>,
         \/ UNCHANGED <<balance, nonce>>
         \/ t.nonce = nonce /\ nonce' = nonce + 1
  PROVE  IInv'
<1>1. nonce \in Nat /\ \A u \in pool : u.nonce \in Nat
  BY DEF TypeInv, AccountTypeOK, Transactions
<1>2. PoolNonces'
  BY <1>1 DEF IInv, PoolNonces
<1>3. PoolCovered'
  BY <1>1 DEF IInv, PoolNonces, PoolCovered, Since, Cost
<1>4. ASSUME NEW p \in Procs PROVE ProcInv(p)'
  <2>1. job[p].nonce \in Nat
    BY DEF TypeInv, AccountTypeOK, Jobs
  <2> QED
    BY <1>1, <2>1 DEF IInv, ProcInv, ReadsHold, Replaced, process, ghosts
<1> QED
  BY <1>2, <1>3, <1>4 DEF IInv

LEMMA NodeInv == TypeInv /\ IInv /\ Node => IInv'
<1> SUFFICES ASSUME TypeInv, IInv, Node PROVE IInv'
  OBVIOUS
<1>1. ASSUME PriceMoves PROVE IInv'
  <2>1. ASSUME NEW q \in Procs PROVE ProcInv(q)'
    BY <1>1, StaysInv DEF PriceMoves, process, ghosts, IInv
  <2> QED
    BY <1>1, <2>1, PoolStays DEF PriceMoves, IInv
<1>2. ASSUME NEW t \in pool, Execute(t) \/ Revert(t) \/ DropFromPool(t) PROVE IInv'
  BY <1>2, LeavesInv DEF Execute, Revert, DropFromPool, Executable
<1> QED
  BY <1>1, <1>2, ArriveInv DEF Node

(* A step of one command that leaves the account alone: only what it says  *)
(* of the command itself is to be shown.                                   *)
LEMMA OwnStepInv ==
  ASSUME TypeInv, IInv, NEW p \in Procs, UNCHANGED node, ProcInv(p)',
         \A q \in Procs \ {p} :
           /\ pc'[q] = pc[q] /\ job'[q] = job[q]
           /\ overtaken'[q] = overtaken[q] /\ outrun'[q] = outrun[q]
  PROVE  IInv'
<1>1. ASSUME NEW q \in Procs PROVE ProcInv(q)'
  <2>1. CASE q = p
    BY <2>1
  <2>2. CASE q # p
    BY <2>2, StaysInv DEF IInv, node
  <2> QED
    BY <2>1, <2>2
<1> QED
  BY <1>1, PoolStays DEF IInv, node

(* A step that moves on to where nothing is relied on.                     *)
LEMMA ElsewhereInv ==
  ASSUME TypeInv, IInv, NEW p \in Procs, NEW from, NEW to, NEW j, Move(p, from, to, j),
         UNCHANGED node, UNCHANGED ghosts, to \notin {"filled", "refused"},
         to \in Reading => j.kind # "drain", to = "revealed" => j.kind = "withdraw",
         to = "synced" => j.kind \in {"withdraw", "receive"}
  PROVE  IInv'
<1>1. ProcInv(p)'
  BY DEF ProcInv, Reading, Move, TypeInv, AccountTypeOK
<1> QED
  BY <1>1, OwnStepInv DEF ghosts, Move, TypeInv, AccountTypeOK

LEMMA ExitInv ==
  ASSUME TypeInv, IInv, NEW p \in Procs, Exit(p), UNCHANGED node
  PROVE  IInv'
<1>1. ProcInv(p)'
  BY DEF ProcInv, Reading, Exit, TypeInv, AccountTypeOK
<1> QED
  BY <1>1, OwnStepInv DEF Exit, TypeInv, AccountTypeOK

(* The transaction a command builds costs what its job says.               *)
LEMMA TransactionIs ==
  ASSUME NEW p \in Procs
  PROVE  /\ Cost(Transaction(p)) = Cost(job[p]) /\ Since(Transaction(p)) = Since(job[p])
         /\ Replaced(Transaction(p)) = Replaced(job[p])
         /\ Transaction(p).nonce = job[p].nonce
BY DEF Cost, Since, Replaced, Transaction

LEMMA DrainInv == \A p \in Procs : TypeInv /\ IInv /\ Drain(p) => IInv'
<1> SUFFICES ASSUME NEW p \in Procs, TypeInv, IInv, Drain(p) PROVE IInv'
  OBVIOUS
<1>1. job[p] \in Jobs /\ pc \in [Procs -> Steps] /\ job \in [Procs -> Jobs]
      /\ overtaken \in [Procs -> BOOLEAN] /\ outrun \in [Procs -> BOOLEAN]
      /\ balance \in Nat /\ income \in Nat /\ Income \in Nat
      /\ ProcInv(p)
  BY AccountAssumption DEF TypeInv, AccountTypeOK, IInv
<1>2. ASSUME ReadBalance(p) PROVE IInv'
  <2>1. /\ job'[p].balance = balance /\ job'[p].seen = income /\ pc'[p] = "balance"
        /\ income' = income /\ balance' = balance /\ pool' = pool
        /\ (~overtaken'[p] => pool = {})
    BY <1>1, <1>2 DEF ReadBalance, Move, node, Jobs
  <2>2. (income' - job'[p].seen) * Income = 0
    BY <1>1, <2>1
  <2>3. ~overtaken'[p] => ReadsHold(p)'
    BY <1>1, <2>1, <2>2 DEF ReadsHold, Since
  <2>4. ProcInv(p)'
    BY <1>1, <2>1, <2>3 DEF ProcInv
  <2> QED
    BY <1>1, <1>2, <2>4, OwnStepInv DEF ReadBalance, Move
<1>3. ASSUME ReadGasPrice(p) PROVE IInv'
  <2>1. /\ job'[p].kind = job[p].kind /\ job'[p].balance = job[p].balance
        /\ job'[p].seen = job[p].seen /\ pc[p] = "balance" /\ pc'[p] = "priced"
        /\ overtaken' = overtaken /\ UNCHANGED <<balance, income, pool>>
    BY <1>1, <1>3 DEF ReadGasPrice, Move, node, ghosts, Jobs
  <2>2. ProcInv(p)'
    BY <1>1, <2>1 DEF ProcInv, ReadsHold, Since, Reading
  <2> QED
    BY <1>1, <1>3, <2>2, OwnStepInv DEF ReadGasPrice, Move, ghosts
<1>4. ASSUME EstimateGas(p) PROVE IInv'
  <2>1. /\ job'[p].kind = job[p].kind /\ job'[p].seen = job[p].seen
        /\ job'[p].value = job[p].balance - GasOf(job[p]) * job[p].price
        /\ job'[p].gas = GasOf(job[p]) /\ job'[p].price = job[p].price
        /\ pc[p] = "priced" /\ pc'[p] = "request"
        /\ overtaken' = overtaken /\ UNCHANGED <<balance, income, pool>>
    BY <1>1, <1>4 DEF EstimateGas, MaxAlpenDrainValue, Move, node, ghosts, Jobs
  <2>2. GasOf(job[p]) * job[p].price \in Nat /\ job[p].balance \in Nat
    BY <1>1, GasNat DEF Jobs
  <2>3. Cost(job[p])' = job[p].balance
    BY <2>1, <2>2 DEF Cost
  <2>4. ProcInv(p)'
    BY <1>1, <2>1, <2>3 DEF ProcInv, ReadsHold, Since, Reading
  <2> QED
    BY <1>1, <1>4, <2>4, OwnStepInv DEF EstimateGas, Move, ghosts
<1>5. ASSUME NothingToDrain(p) \/ InsufficientGas(p) PROVE IInv'
  BY <1>5, ExitInv DEF NothingToDrain, InsufficientGas
<1> QED
  BY <1>2, <1>3, <1>4, <1>5 DEF Drain

LEMMA FillInv == \A p \in Procs : TypeInv /\ IInv /\ Fill(p) => IInv'
<1> SUFFICES ASSUME NEW p \in Procs, TypeInv, IInv, Fill(p) PROVE IInv'
  OBVIOUS
<1>1. job[p] \in Jobs /\ pc \in [Procs -> Steps] /\ job \in [Procs -> Jobs]
      /\ overtaken \in [Procs -> BOOLEAN] /\ nonce \in Nat /\ MaxTxs \in Nat /\ ProcInv(p)
  BY AccountAssumption DEF TypeInv, AccountTypeOK, IInv
<1>2. PICK n \in PendingNonces :
        Move(p, "request", "filled", [Filled(job[p]) EXCEPT !.nonce = n])
  BY DEF Fill
<1>3. /\ n \in Int /\ n >= nonce /\ \A t \in pool : t.nonce # n
      /\ pool = {} => n = nonce
  BY <1>1 DEF PendingNonces
<1>4. Filled(job[p]) \in Jobs /\ Filled(job[p]).kind = job[p].kind
  <2>1. gasPrice \in Nat
    BY AccountAssumption DEF TypeInv, AccountTypeOK
  <2> QED
    BY <1>1, <2>1, GasNat DEF Filled, Jobs
<1>5. /\ job'[p] = [Filled(job[p]) EXCEPT !.nonce = n]
      /\ pc[p] = "request" /\ pc'[p] = "filled"
      /\ UNCHANGED <<balance, nonce, income, pool, overtaken, outrun>>
  BY <1>1, <1>2 DEF Fill, Move, node, ghosts
<1>6. job'[p].nonce = n /\ job'[p].kind = job[p].kind /\ job'[p].seen = job[p].seen
  BY <1>1, <1>4, <1>5 DEF Jobs, Filled
<1>7. Replaced(job[p])' = {}
  BY <1>3, <1>5, <1>6 DEF Replaced
<1>8. ASSUME job[p].kind = "drain", ~overtaken'[p]
      PROVE  ReadsHold(p)'
  <2>1. ~overtaken[p] /\ ReadsHold(p)
    BY <1>1, <1>5, <1>8 DEF Fill, ProcInv, Reading
  <2>2. job'[p].value = job[p].value /\ job'[p].gas = job[p].gas
        /\ job'[p].price = job[p].price /\ job'[p].seen = job[p].seen
    BY <1>1, <1>5, <1>8 DEF Filled, Jobs
  <2> QED
    BY <1>3, <1>5, <1>6, <2>1, <2>2 DEF ReadsHold, Cost, Since
<1>9. ProcInv(p)'
  BY <1>1, <1>3, <1>5, <1>6, <1>7, <1>8 DEF ProcInv, Reading
<1> QED
  BY <1>1, <1>2, <1>5, <1>9, OwnStepInv DEF Fill, Move

LEMMA SubmitInv == \A p \in Procs : TypeInv /\ IInv /\ Submit(p) => IInv'
<1> SUFFICES ASSUME NEW p \in Procs, TypeInv, IInv, Submit(p) PROVE IInv'
  OBVIOUS
<1>1. /\ job[p] \in Jobs /\ pc \in [Procs -> Steps] /\ job \in [Procs -> Jobs]
      /\ overtaken \in [Procs -> BOOLEAN] /\ nonce \in Nat /\ ProcInv(p) /\ pc[p] = "filled"
      /\ \A t \in pool : t.nonce \in Nat
  BY DEF TypeInv, AccountTypeOK, IInv, Submit, Transactions
<1>2. PICK answered \in BOOLEAN :
        pool' = (pool \ Replaced(Transaction(p)))
                  \cup {[Transaction(p) EXCEPT !.reported = answered]}
  BY DEF Submit
<1> DEFINE tx == [Transaction(p) EXCEPT !.reported = answered]
<1>3. /\ tx.nonce = job[p].nonce /\ tx.value = job[p].value /\ tx.gas = job[p].gas
      /\ tx.price = job[p].price /\ tx.seen = job[p].seen
      /\ tx.undisturbed = (job[p].kind = "drain" /\ ~overtaken[p])
  BY DEF Transaction
<1>4. pool' = {t \in pool : t.nonce # job[p].nonce} \cup {tx} /\ job[p].nonce >= nonce
      /\ UNCHANGED <<balance, nonce, income>>
  BY <1>2, <1>3, TransactionIs DEF Submit, Replaced, Accepts
<1>5. PoolNonces'
  BY <1>1, <1>3, <1>4 DEF IInv, PoolNonces
<1>6. PoolCovered'
  <2> SUFFICES ASSUME NEW t \in pool', t.undisturbed
               PROVE  t.nonce = nonce /\ balance = Cost(t) + Since(t)
    BY <1>4 DEF PoolCovered, Cost, Since
  <2>1. CASE t \in pool
    BY <2>1 DEF IInv, PoolCovered
  <2>2. CASE t = tx
    <3>1. job[p].kind = "drain" /\ ~overtaken[p]
      BY <1>3, <2>2
    <3>2. ReadsHold(p)
      BY <1>1, <3>1 DEF ProcInv, Reading
    <3> QED
      BY <1>1, <1>3, <2>2, <3>2 DEF ReadsHold, Cost, Since
  <2> QED
    BY <1>4, <2>1, <2>2
<1>7. ASSUME NEW q \in Procs PROVE ProcInv(q)'
  <2>1. /\ overtaken'[q] = (q # p /\ (overtaken[q] \/ (job[q].kind = "drain" /\ pc[q] \in Reading)))
        /\ outrun'[q] = (q # p /\ (outrun[q] \/ pc[q] = "filled"))
    BY DEF Submit
  <2>2. CASE q = p
    BY <1>1, <2>2 DEF Submit, ProcInv, Reading
  <2>3. CASE q # p
    <3>1. pc'[q] = pc[q] /\ job'[q] = job[q] /\ income' = income /\ ProcInv(q)
      BY <1>1, <2>3 DEF Submit, IInv
    <3>2. /\ overtaken'[q] = (overtaken[q] \/ (job[q].kind = "drain" /\ pc[q] \in Reading))
          /\ outrun'[q] = (outrun[q] \/ pc[q] = "filled")
      BY <2>1, <2>3
    <3> QED
      BY <3>1, <3>2 DEF ProcInv, Reading
  <2> QED
    BY <2>2, <2>3
<1> QED
  BY <1>5, <1>6, <1>7 DEF IInv

(* The node has no reason to refuse a drain that nothing has overtaken.    *)
LEMMA DrainAccepted ==
  ASSUME TypeInv, IInv, NEW p \in Procs, pc[p] = "filled", job[p].kind = "drain", ~overtaken[p]
  PROVE  Accepts(Transaction(p))
<1>1. job[p] \in Jobs /\ balance \in Nat /\ nonce \in Nat
  BY DEF TypeInv, AccountTypeOK
<1>2. ReadsHold(p) /\ Replaced(job[p]) = {}
  BY DEF IInv, ProcInv, Reading, ReadsHold, Replaced
<1>3. Since(job[p]) >= 0 /\ Since(job[p]) \in Int
  <2>1. income - job[p].seen \in Nat /\ Income \in Nat
    BY <1>1, AccountAssumption DEF IInv, ProcInv, Reading, TypeInv, AccountTypeOK, Jobs
  <2> QED
    BY <2>1 DEF Since
<1>4. balance >= Cost(job[p])
  BY <1>1, <1>2, <1>3, CostNat DEF ReadsHold, Jobs
<1> QED
  BY <1>1, <1>2, <1>4, TransactionIs DEF Accepts, ReadsHold

LEMMA CommandInv == \A p \in Procs : TypeInv /\ IInv /\ Command(p) => IInv'
<1> SUFFICES ASSUME NEW p \in Procs, TypeInv, IInv, Command(p) PROVE IInv'
  OBVIOUS
<1>1. ASSUME Begin(p) PROVE IInv'
  <2>1. PICK j : Move(p, "idle", "begun", j)
    BY <1>1 DEF Begin
  <2> QED
    BY <1>1, <2>1, ElsewhereInv DEF Begin, Reading
<1>2. job[p] \in Jobs
  BY DEF TypeInv, AccountTypeOK
<1>3. ASSUME SyncWallet(p) PROVE IInv'
  BY <1>2, <1>3, ElsewhereInv DEF SyncWallet, Reading, Jobs
<1>8. ASSUME Receive(p) PROVE IInv'
  <2> DEFINE j == [job[p] EXCEPT !.seen = NextAddress(job[p])]
  <2>1. Move(p, "synced", "synced", j) /\ j.kind = "receive"
    BY <1>2, <1>8 DEF Receive, Jobs
  <2> HIDE DEF j
  <2> QED
    BY <1>8, <2>1, ElsewhereInv DEF Receive, Reading
<1>4. ASSUME RevealAddress(p) \/ GivenAddress(p) PROVE IInv'
  <2>1. job[p].kind = "withdraw"
    BY <1>4 DEF RevealAddress, GivenAddress
  <2> QED
    <3>1. /\ [job[p] EXCEPT !.seen = 0, !.address = NextAddress(job[p])].kind = "withdraw"
          /\ [job[p] EXCEPT !.seen = 0].kind = "withdraw"
      BY <1>2, <2>1 DEF Jobs
    <3>2. CASE RevealAddress(p)
      <4> DEFINE j == [job[p] EXCEPT !.seen = 0, !.address = NextAddress(job[p])]
      <4>1. Move(p, "synced", "revealed", j) /\ j.kind = "withdraw"
        BY <3>1, <3>2 DEF RevealAddress
      <4> HIDE DEF j
      <4> QED
        BY <3>2, <4>1, ElsewhereInv DEF RevealAddress, Reading
    <3>3. CASE GivenAddress(p)
      <4> DEFINE j == [job[p] EXCEPT !.seen = 0]
      <4>1. Move(p, "synced", "revealed", j) /\ j.kind = "withdraw"
        BY <3>1, <3>3 DEF GivenAddress
      <4> HIDE DEF j
      <4> QED
        BY <3>3, <4>1, ElsewhereInv DEF GivenAddress, Reading
    <3> QED
      BY <1>4, <3>2, <3>3
<1>5. ASSUME RequestTransfer(p) \/ WithdrawalRequest(p) PROVE IInv'
  <2>1. job[p].kind \in {"send", "withdraw"}
    BY <1>5 DEF RequestTransfer, WithdrawalRequest, Move, IInv, ProcInv
  <2> DEFINE JobWith(v) == [job[p] EXCEPT !.value = v, !.amount = 0]
  <2>2. \A v : JobWith(v).kind # "drain"
    BY <1>2, <2>1 DEF Jobs
  <2>3. CASE RequestTransfer(p)
    <3>1. Move(p, "begun", "request", JobWith(job[p].amount * SatsToWei))
      BY <2>3 DEF RequestTransfer
    <3> HIDE DEF JobWith
    <3> QED
      BY <2>2, <2>3, <3>1, ElsewhereInv DEF RequestTransfer
  <2>4. CASE WithdrawalRequest(p)
    <3>1. Move(p, "revealed", "request",
               JobWith(ResolveWithdrawalAmount(job[p].amount) * SatsToWei))
      BY <2>4 DEF WithdrawalRequest
    <3> HIDE DEF JobWith
    <3> QED
      BY <2>2, <2>4, <3>1, ElsewhereInv DEF WithdrawalRequest
  <2> QED
    BY <1>5, <2>3, <2>4
<1>6. ASSUME SubmitRefused(p) PROVE IInv'
  <2>1. ProcInv(p)'
    <3>1. job[p].kind = "drain" => overtaken[p]
      BY <1>6, DrainAccepted DEF SubmitRefused
    <3> QED
      BY <1>6, <3>1 DEF SubmitRefused, ghosts, ProcInv, Reading, TypeInv, AccountTypeOK
  <2> QED
    BY <1>6, <2>1, OwnStepInv DEF SubmitRefused, ghosts, TypeInv, AccountTypeOK
<1>7. ASSUME Fail(p) \/ AmountRefused(p) \/ End(p) \/ Received(p) PROVE IInv'
  BY <1>7, ExitInv DEF Fail, AmountRefused, End, Received
<1> QED
  BY <1>1, <1>3, <1>4, <1>5, <1>6, <1>7, <1>8, DrainInv, FillInv, SubmitInv
     DEF Command, Withdraw, SendTransaction

LEMMA Invariance == Spec => [](TypeInv /\ IInv)
<1>1. TypeInv /\ IInv /\ [Next]_vars => IInv'
  <2>1. ASSUME TypeInv, IInv, UNCHANGED vars PROVE IInv'
    <3>1. ASSUME NEW q \in Procs PROVE ProcInv(q)'
      BY <2>1, StaysInv DEF vars, node, process, ghosts, IInv
    <3> QED
      BY <2>1, <3>1, PoolStays DEF vars, node, IInv
  <2> QED
    BY <2>1, NodeInv, CommandInv DEF Next
<1> QED
  BY <1>1, InitInv, Typed, PTL DEF Spec

(***************************************************************************)
(* While nothing has overtaken a drain, what it read holds, and the account*)
(* covers its transaction to the wei until it is executed; nonces in the   *)
(* pool are unique.                                                        *)
(***************************************************************************)
THEOREM AccountInvariance == Spec => []AccountInv
BY Typed, Invariance, IInvImplies, PTL

(***************************************************************************)
(* A drain is refused only if another transaction came with or after its   *)
(* first read.                                                             *)
(***************************************************************************)
THEOREM DrainRefusalsExplained == Spec => []DrainRefusedOnlyIfOvertaken
BY Typed, Invariance, IInvImplies, PTL

(***************************************************************************)
(* An undisturbed drain leaves what arrived after its first read, to the   *)
(* wei.                                                                    *)
(***************************************************************************)
THEOREM DrainsAreExact == Spec => DrainLeavesArrivals
<1>1. ASSUME TypeInv, IInv, NEW t \in pool, Execute(t), t.undisturbed, t.plain
      PROVE  balance' = Since(t)
  <2>1. t.value \in Nat /\ t.gas * t.price \in Nat /\ t.seen \in Nat
    <3>1. t \in Transactions
      BY <1>1 DEF TypeInv, AccountTypeOK
    <3> QED
      BY <3>1, CostNat DEF Transactions
  <2>2. balance = Cost(t) + Since(t)
    BY <1>1 DEF IInv, PoolCovered
  <2>3. balance' = balance - t.value - t.gas * t.price
    BY <1>1 DEF Execute
  <2>4. Since(t) \in Int
    <3>1. income \in Nat /\ Income \in Nat
      BY <1>1, AccountAssumption DEF TypeInv, AccountTypeOK
    <3> QED
      BY <2>1, <3>1 DEF Since
  <2> QED
    BY <2>1, <2>2, <2>3, <2>4 DEF Cost
<1>2. TypeInv /\ IInv /\ [Next]_vars =>
        [\A t \in pool : Execute(t) /\ t.undisturbed /\ t.plain => balance' = Since(t)]_vars
  BY <1>1
<1> QED
  BY <1>2, Invariance, PTL DEF Spec, DrainLeavesArrivals

(***************************************************************************)
(* A transaction that was reported is replaced only by a command, a drain  *)
(* or another, that had its nonce before.                                  *)
(***************************************************************************)
THEOREM ReportsStand == Spec => ReportedStands
<1>1. ASSUME IInv, NEW p \in Procs, Submit(p), ~outrun[p]
      PROVE  \A t \in Replaced(Transaction(p)) : ~t.reported
  BY <1>1, TransactionIs DEF IInv, ProcInv, Submit
<1>2. IInv /\ [Next]_vars =>
        [\A p \in Procs : Submit(p) =>
           outrun[p] \/ \A t \in Replaced(Transaction(p)) : ~t.reported]_vars
  BY <1>1
<1> QED
  BY <1>2, Invariance, PTL DEF Spec, ReportedStands

-----------------------------------------------------------------------------
(* Addresses.                                                              *)

(* What was revealed at some time covers everything that is owed.          *)
OwedInv == revealed <= high /\ \A a \in Owed : a <= high

LEMMA OwedInvariance == Spec => []OwedInv
<1>1. Init => OwedInv
  BY DEF Init, OwedInv, Owed, NoJob
<1>2. TypeInv /\ OwedInv /\ [Next]_vars => OwedInv'
  <2> SUFFICES ASSUME TypeInv, OwedInv, [Next]_vars PROVE OwedInv'
    OBVIOUS
  <2>1. revealed \in Nat /\ high \in Nat /\ job \in [Procs -> Jobs]
    BY DEF TypeInv, AccountTypeOK
  <2>2. ASSUME Owed' \subseteq Owed, UNCHANGED <<revealed, high>> PROVE OwedInv'
    BY <2>2 DEF OwedInv
  <2>3. ASSUME UNCHANGED vars PROVE OwedInv'
    BY <2>2, <2>3 DEF vars, node, process, wallet, Owed
  <2>4. ASSUME Arrive \/ PriceMoves PROVE OwedInv'
    BY <2>2, <2>4 DEF Arrive, PriceMoves, process, wallet, Owed
  <2>5. ASSUME NEW t \in pool, Execute(t) \/ Revert(t) \/ DropFromPool(t) PROVE OwedInv'
    BY <2>2, <2>5 DEF Execute, Revert, DropFromPool, process, wallet, Owed
  <2>6. ASSUME NEW p \in Procs, NEW from, NEW to, NEW j, Move(p, from, to, j),
               j.address \in {0, job[p].address}, UNCHANGED <<pool, paid, revealed, high>>
        PROVE  OwedInv'
    <3>1. \A q \in Procs : job'[q].address \in {0, job[q].address}
      BY <2>1, <2>6 DEF Move
    <3> QED
      BY <2>2, <2>6, <3>1 DEF Owed
  <2>7. ASSUME NEW p \in Procs, Exit(p), UNCHANGED <<pool, paid, revealed, high>>
        PROVE  OwedInv'
    <3>1. \A q \in Procs : job'[q].address \in {0, job[q].address}
      BY <2>1, <2>7 DEF Exit, NoJob
    <3> QED
      BY <2>2, <2>7, <3>1 DEF Owed
  <2>8. ASSUME NEW p \in Procs, RevealAddress(p) PROVE OwedInv'
    <3> DEFINE a == NextAddress(job[p])
    <3>1. /\ a \in Nat /\ revealed' = a /\ high' \in Nat
          /\ high <= high' /\ a <= high'
      BY <2>1, <2>8 DEF RevealAddress, Reveal, NextAddress, Larger, Jobs
    <3>2. \A q \in Procs : job'[q].address \in {a, job[q].address}
      BY <2>1, <2>8 DEF RevealAddress, Move
    <3>3. Owed' \subseteq Owed \cup {a}
      BY <2>8, <3>2 DEF RevealAddress, node, Owed
    <3>4. \A b \in Owed : b \in Nat /\ b <= high
      BY <2>1 DEF OwedInv, Owed, TypeInv, AccountTypeOK, Transactions, Jobs
    <3> QED
      BY <2>1, <3>1, <3>3, <3>4 DEF OwedInv
  <2>9. ASSUME NEW p \in Procs, Submit(p) PROVE OwedInv'
    <3>1. PICK answered \in BOOLEAN :
            pool' = (pool \ Replaced(Transaction(p)))
                      \cup {[Transaction(p) EXCEPT !.reported = answered]}
      BY <2>9 DEF Submit
    <3>2. [Transaction(p) EXCEPT !.reported = answered].address = job[p].address
      BY DEF Transaction
    <3>3. \A q \in Procs : job'[q].address \in {0, job[q].address}
      BY <2>1, <2>9 DEF Submit, NoJob
    <3> QED
      BY <2>2, <2>9, <3>1, <3>2, <3>3 DEF Submit, wallet, Owed
  <2>10. ASSUME NEW p \in Procs, SubmitRefused(p) PROVE OwedInv'
    BY <2>2, <2>10 DEF SubmitRefused, node, wallet, Owed
  <2>11. ASSUME NEW p \in Procs,
                \/ Fail(p) \/ NothingToDrain(p) \/ InsufficientGas(p)
                \/ AmountRefused(p) \/ End(p) \/ Received(p)
         PROVE  OwedInv'
    BY <2>7, <2>11 DEF Fail, NothingToDrain, InsufficientGas, AmountRefused, End, Received, node, wallet
  <2>12. ASSUME NEW p \in Procs, ReadBalance(p) \/ ReadGasPrice(p) \/ EstimateGas(p)
         PROVE  OwedInv'
    <3>1. /\ [job[p] EXCEPT !.balance = balance, !.seen = income].address = job[p].address
          /\ [job[p] EXCEPT !.price = gasPrice].address = job[p].address
          /\ [job[p] EXCEPT !.gas = GasOf(job[p]), !.balance = 0,
                            !.value = MaxAlpenDrainValue(job[p])].address = job[p].address
      BY <2>1 DEF Jobs
    <3> QED
      BY <2>6, <2>12, <3>1 DEF ReadBalance, ReadGasPrice, EstimateGas, node, wallet
  <2>13. ASSUME NEW p \in Procs, SyncWallet(p) \/ GivenAddress(p) PROVE OwedInv'
    <3>1. /\ [job[p] EXCEPT !.seen = revealed].address = job[p].address
          /\ [job[p] EXCEPT !.seen = 0].address = job[p].address
      BY <2>1 DEF Jobs
    <3> QED
      BY <2>6, <2>13, <3>1 DEF SyncWallet, GivenAddress, node, wallet
  <2>14. ASSUME NEW p \in Procs, Begin(p) PROVE OwedInv'
    <3>1. PICK k \in Kinds, plain \in BOOLEAN, a \in UserAmounts \cup {0} :
            Move(p, "idle", "begun", [NoJob EXCEPT !.kind = k, !.plain = plain, !.amount = a])
      BY <2>14 DEF Begin
    <3>2. [NoJob EXCEPT !.kind = k, !.plain = plain, !.amount = a].address = 0
      BY DEF NoJob
    <3> QED
      BY <2>6, <2>14, <3>1, <3>2 DEF Begin, node, wallet
  <2>15. ASSUME NEW p \in Procs, Fill(p) PROVE OwedInv'
    <3>1. PICK n \in PendingNonces :
            Move(p, "request", "filled", [Filled(job[p]) EXCEPT !.nonce = n])
      BY <2>15 DEF Fill
    <3>2. [Filled(job[p]) EXCEPT !.nonce = n].address = job[p].address
      BY <2>1 DEF Filled, Jobs
    <3> QED
      BY <2>6, <2>15, <3>1, <3>2 DEF Fill, node, wallet
  <2>16. ASSUME NEW p \in Procs, RequestTransfer(p) \/ WithdrawalRequest(p) PROVE OwedInv'
    <3>1. ASSUME NEW v PROVE [job[p] EXCEPT !.value = v, !.amount = 0].address = job[p].address
      BY <2>1 DEF Jobs
    <3> QED
      BY <2>6, <2>16, <3>1 DEF RequestTransfer, WithdrawalRequest, node, wallet
  <2>17. ASSUME NEW p \in Procs, Receive(p) PROVE OwedInv'
    <3>1. /\ revealed' \in Nat /\ revealed' <= high' /\ high' \in Nat /\ high <= high'
      BY <2>1, <2>17 DEF Receive, Reveal, NextAddress, Larger, Jobs
    <3>2. \A q \in Procs : job'[q].address = job[q].address
      BY <2>1, <2>17 DEF Receive, Move, Jobs
    <3>3. Owed' = Owed
      BY <2>17, <3>2 DEF Receive, node, Owed
    <3>4. \A b \in Owed : b \in Nat /\ b <= high
      BY <2>1 DEF OwedInv, Owed, TypeInv, AccountTypeOK, Transactions, Jobs
    <3> QED
      BY <2>1, <3>1, <3>3, <3>4 DEF OwedInv
  <2> QED
    BY <2>3, <2>4, <2>5, <2>8, <2>9, <2>10, <2>11, <2>12, <2>13, <2>14, <2>15, <2>16, <2>17
       DEF Next, Node, Command, Drain, Withdraw, SendTransaction
<1> QED
  BY <1>1, <1>2, Typed, PTL DEF Spec

(***************************************************************************)
(* Nothing is sent to an address that was not on disk before, and it is    *)
(* there still unless a command that had loaded the wallet earlier wrote   *)
(* its own count over it.                                                  *)
(***************************************************************************)
THEOREM PayoutsAreRevealed == Spec => []PayoutsRevealed
<1>1. TypeInv /\ OwedInv => PayoutsRevealed
  BY DEF TypeInv, AccountTypeOK, OwedInv, PayoutsRevealed
<1> QED
  BY <1>1, Typed, OwedInvariance, PTL

-----------------------------------------------------------------------------
(* Reach.  What counts is the number of revealed addresses that nothing    *)
(* has been or will be sent to: each of them has cost a failure or was     *)
(* revealed for something else.                                            *)

Early == {"idle", "begun", "synced", "balance", "priced"}

\* The addresses that are paid, may yet be paid or are about to be.  A command
\* whose transaction was refused is over.
Settled ==
  (paid \cup {t.address : t \in pool}
        \cup {job[p].address : p \in {q \in Procs : pc[q] # "refused"}}) \ {0}

Lost == (1 .. high) \ Settled

LostInv ==
  /\ \A p \in Procs : pc[p] \in Early => job[p].address = 0
  /\ \A p \in Procs : pc[p] = "synced" => job[p].seen <= high
  /\ revealed <= high
  /\ Cardinality(Lost) <= faults + received

LEMMA LostFinite ==
  ASSUME NEW n \in Nat, NEW S
  PROVE  IsFiniteSet((1 .. n) \ S) /\ Cardinality((1 .. n) \ S) \in Nat
<1>1. IsFiniteSet(1 .. n)
  BY FS_Interval
<1>2. IsFiniteSet((1 .. n) \ S)
  BY <1>1, FS_Subset
<1> QED
  BY <1>2, FS_CardinalityType

(* Of two sets of addresses, the second has at most the first's members, or *)
(* one more.                                                               *)
LEMMA LosesNone ==
  ASSUME NEW n \in Nat, NEW m \in Nat, NEW S, NEW T,
         (1 .. m) \ T \subseteq (1 .. n) \ S
  PROVE  Cardinality((1 .. m) \ T) <= Cardinality((1 .. n) \ S)
BY LostFinite, FS_Subset

LEMMA LosesOne ==
  ASSUME NEW n \in Nat, NEW S, NEW T, NEW x, S \subseteq T \cup {x}
  PROVE  Cardinality((1 .. n) \ T) <= Cardinality((1 .. n) \ S) + 1
<1> DEFINE L == (1 .. n) \ S
           M == (1 .. n) \ T
<1>1. IsFiniteSet(L) /\ Cardinality(L) \in Nat /\ Cardinality(M) \in Nat
  BY LostFinite
<1>2. /\ IsFiniteSet(L \cup {x})
      /\ Cardinality(L \cup {x}) = IF x \in L THEN Cardinality(L) ELSE Cardinality(L) + 1
  BY <1>1, FS_AddElement
<1>3. M \in SUBSET (L \cup {x})
  OBVIOUS
<1>4. Cardinality(M) <= Cardinality(L \cup {x})
  BY <1>2, <1>3, FS_Subset
<1> HIDE DEF L, M
<1>5. Cardinality(M) <= Cardinality(L) + 1
  BY <1>1, <1>2, <1>4
<1> QED
  BY <1>5 DEF L, M

(* What is known of the count before and after a step.                     *)
LEMMA CountTypes ==
  ASSUME TypeInv
  PROVE  /\ revealed \in Nat /\ high \in Nat /\ faults \in Nat /\ received \in Nat
         /\ Cardinality(Lost) \in Nat
<1>1. revealed \in Nat /\ high \in Nat /\ faults \in Nat /\ received \in Nat
  BY AccountAssumption DEF TypeInv, AccountTypeOK
<1> QED
  BY <1>1, LostFinite DEF Lost

LEMMA NothingLost ==
  ASSUME TypeInv, LostInv, high' = high, Settled \subseteq Settled',
         faults' = faults, received' = received
  PROVE  Cardinality(Lost)' <= faults' + received'
<1>1. Cardinality((1 .. high) \ Settled') <= Cardinality((1 .. high) \ Settled)
  BY CountTypes, LosesNone
<1>2. Lost' = (1 .. high) \ Settled'
  BY DEF Lost
<1>3. Cardinality((1 .. high) \ Settled') \in Nat
  BY CountTypes, LostFinite
<1>4. Cardinality((1 .. high) \ Settled') <= faults + received
  BY <1>1, <1>3, CountTypes DEF Lost, LostInv
<1> QED
  BY <1>2, <1>4

LEMMA OneLost ==
  ASSUME TypeInv, LostInv, high' = high, NEW x, Settled \subseteq Settled' \cup {x},
         faults' = faults + 1, received' = received
  PROVE  Cardinality(Lost)' <= faults' + received'
<1>1. Cardinality((1 .. high) \ Settled') <= Cardinality((1 .. high) \ Settled) + 1
  BY CountTypes, LosesOne
<1>2. Cardinality((1 .. high) \ Settled') \in Nat
  BY CountTypes, LostFinite
<1>3. Lost' = (1 .. high) \ Settled'
  BY DEF Lost
<1>4. Cardinality((1 .. high) \ Settled') <= faults + 1 + received
  BY <1>1, <1>2, CountTypes DEF Lost, LostInv
<1> QED
  BY <1>3, <1>4

(* A step of a command after which its address is as it was.               *)
LEMMA MoveKeepsReach ==
  ASSUME TypeInv, LostInv, NEW p \in Procs, NEW from, NEW to, NEW j, Move(p, from, to, j),
         from # "refused", to # "refused",
         j.address = job[p].address, to \in Early => from \in Early,
         to = "synced" => j.seen <= high, UNCHANGED <<pool, paid, wallet, faults>>
  PROVE  LostInv'
<1>1. \A q \in Procs : job'[q].address = job[q].address
  BY DEF Move, TypeInv, AccountTypeOK
<1>2. \A q \in Procs : pc'[q] # "refused" <=> pc[q] # "refused"
  BY DEF Move, TypeInv, AccountTypeOK
<1>3. Settled' = Settled
  BY <1>1, <1>2 DEF Settled
<1>4. Cardinality(Lost)' <= faults' + received'
  BY <1>3, NothingLost DEF wallet
<1>5. \A q \in Procs : pc'[q] \in Early => job'[q].address = 0
  BY <1>1 DEF Move, TypeInv, AccountTypeOK, LostInv
<1>6. \A q \in Procs : pc'[q] = "synced" => job'[q].seen <= high'
  BY DEF Move, TypeInv, AccountTypeOK, LostInv, wallet
<1> QED
  BY <1>4, <1>5, <1>6 DEF LostInv, wallet

(* What a command that ends leaves of the first two conjuncts.             *)
LEMMA EndsEarly ==
  ASSUME TypeInv, LostInv, NEW p \in Procs, pc' = [pc EXCEPT ![p] = "idle"],
         job' = [job EXCEPT ![p] = NoJob], high' = high
  PROVE  /\ \A q \in Procs : pc'[q] \in Early => job'[q].address = 0
         /\ \A q \in Procs : pc'[q] = "synced" => job'[q].seen <= high'
BY DEF TypeInv, AccountTypeOK, LostInv, NoJob

(* A command that ends without its address in use has lost it, at the cost *)
(* of a failure, unless it had none or that was counted before.            *)
LEMMA ExitLoses ==
  ASSUME TypeInv, LostInv, NEW p \in Procs, Exit(p), UNCHANGED <<pool, paid, wallet>>,
         \/ faults' = faults + 1
         \/ faults' = faults /\ (pc[p] \in Early \/ pc[p] = "refused")
  PROVE  LostInv'
<1>1. Settled \subseteq Settled' \cup {job[p].address}
  BY DEF Exit, Settled, TypeInv, AccountTypeOK
<1>2. CASE faults' = faults + 1
  BY <1>1, <1>2, OneLost, EndsEarly DEF Exit, LostInv, wallet
<1>3. CASE faults' = faults /\ (pc[p] \in Early \/ pc[p] = "refused")
  <2>1. Settled \subseteq Settled'
    BY <1>3 DEF Exit, Settled, TypeInv, AccountTypeOK, LostInv
  <2> QED
    BY <1>3, <2>1, NothingLost, EndsEarly DEF Exit, LostInv, wallet
<1> QED
  BY <1>2, <1>3


LEMMA NodeReach ==
  ASSUME TypeInv, LostInv, Node PROVE LostInv'
<1> USE DEF LostInv, process, wallet
<1>1. ASSUME Arrive \/ PriceMoves PROVE LostInv'
  <2>1. Settled' = Settled /\ UNCHANGED <<pc, job, wallet, faults>>
    BY <1>1 DEF Arrive, PriceMoves, Settled
  <2> QED
    BY <2>1, NothingLost
<1>2. ASSUME NEW t \in pool, Execute(t) PROVE LostInv'
  <2>1. Settled \subseteq Settled' /\ UNCHANGED <<pc, job, wallet, faults>>
    BY <1>2 DEF Execute, Settled
  <2> QED
    BY <2>1, NothingLost
<1>3. ASSUME NEW t \in pool, Revert(t) \/ DropFromPool(t) PROVE LostInv'
  <2>1. /\ Settled \subseteq Settled' \cup {t.address}
        /\ UNCHANGED <<pc, job, wallet>> /\ faults' = faults + 1
    BY <1>3 DEF Revert, DropFromPool, Settled
  <2> QED
    BY <2>1, OneLost
<1> QED
  BY <1>1, <1>2, <1>3 DEF Node

(* The address that is revealed is the next one or was revealed before.    *)
LEMMA NextIsHigh ==
  ASSUME TypeInv, LostInv, NEW p \in Procs, pc[p] = "synced", Reveal(p)
  PROVE  /\ NextAddress(job[p]) \in Nat \ {0} /\ high' \in Nat /\ high <= high'
         /\ high' \in {high, NextAddress(job[p])} /\ NextAddress(job[p]) <= high + 1
         /\ revealed' = NextAddress(job[p]) /\ revealed' <= high'
<1>1. job[p].seen \in Nat /\ job[p].seen <= high /\ high \in Nat
  BY CountTypes DEF TypeInv, AccountTypeOK, LostInv, Jobs
<1> QED
  BY <1>1 DEF Reveal, NextAddress, Larger

(* What the other commands have loaded stays below.                        *)
LEMMA SeenStays ==
  ASSUME TypeInv, LostInv, NEW q \in Procs, pc[q] = "synced", high' \in Nat, high <= high'
  PROVE  job[q].seen <= high'
<1>1. job[q].seen \in Nat /\ job[q].seen <= high /\ high \in Nat
  BY CountTypes DEF TypeInv, AccountTypeOK, LostInv, Jobs
<1> QED
  BY <1>1

LEMMA RevealReach ==
  ASSUME TypeInv, LostInv, NEW p \in Procs, RevealAddress(p) PROVE LostInv'
<1> DEFINE a == NextAddress(job[p])
<1>1. /\ job \in [Procs -> Jobs] /\ pc \in [Procs -> Steps]
      /\ job[p].address = 0 /\ pc[p] = "synced" /\ Reveal(p)
  BY DEF TypeInv, AccountTypeOK, LostInv, RevealAddress, Move, Early, Jobs
<1>2. a \in Nat \ {0} /\ high' \in Nat /\ high <= high' /\ high' \in {high, a}
      /\ a <= high + 1 /\ revealed' <= high'
  BY <1>1, NextIsHigh
<1>3. /\ pc' = [pc EXCEPT ![p] = "revealed"] /\ UNCHANGED <<pool, paid, faults, received>>
      /\ job' = [job EXCEPT ![p] = [job[p] EXCEPT !.seen = 0, !.address = a]]
  BY DEF RevealAddress, Move, node
<1>4. job'[p].address = a
  BY <1>1, <1>3 DEF Jobs
<1>5. Settled \cup {a} \subseteq Settled'
  <2>1. \A q \in Procs \ {p} : job'[q] = job[q] /\ pc'[q] = pc[q]
    BY <1>1, <1>3
  <2>2. a \in Settled'
    BY <1>1, <1>2, <1>3, <1>4 DEF Settled
  <2> QED
    BY <1>1, <1>3, <2>1, <2>2 DEF Settled
<1> HIDE DEF a
<1>6. (1 .. high') \ Settled' \subseteq (1 .. high) \ Settled
  BY <1>2, <1>5, CountTypes
<1>7. Cardinality(Lost)' <= faults' + received'
  <2>1. Cardinality((1 .. high') \ Settled') <= Cardinality((1 .. high) \ Settled)
    BY <1>2, <1>6, CountTypes, LosesNone
  <2>2. Lost' = (1 .. high') \ Settled' /\ Lost = (1 .. high) \ Settled
    BY DEF Lost
  <2>3. Cardinality(Lost') \in Nat
    BY <1>2, <2>2, LostFinite
  <2>4. Cardinality(Lost') <= faults + received
    BY <2>1, <2>2, <2>3, CountTypes DEF LostInv
  <2> QED
    BY <1>3, <2>4
<1>8. \A q \in Procs : pc'[q] \in Early => job'[q].address = 0
  BY <1>1, <1>3 DEF LostInv, Early
<1>9. \A q \in Procs : pc'[q] = "synced" => job'[q].seen <= high'
  BY <1>1, <1>2, <1>3, SeenStays
<1> QED
  BY <1>2, <1>7, <1>8, <1>9 DEF LostInv

(* One that receive or recover reveals adds one to what it may cost.       *)
LEMMA ReceiveReach ==
  ASSUME TypeInv, LostInv, NEW p \in Procs, Receive(p) PROVE LostInv'
<1> DEFINE a == NextAddress(job[p])
<1>1. /\ job \in [Procs -> Jobs] /\ pc \in [Procs -> Steps]
      /\ pc[p] = "synced" /\ Reveal(p)
  BY DEF TypeInv, AccountTypeOK, Receive, Move
<1>2. a \in Nat \ {0} /\ high' \in Nat /\ high <= high' /\ high' \in {high, a}
      /\ a <= high + 1 /\ revealed' = a /\ revealed' <= high'
  BY <1>1, NextIsHigh
<1>3. /\ pc' = [pc EXCEPT ![p] = "synced"] /\ UNCHANGED <<pool, paid, faults>>
      /\ received' = received + 1
      /\ job' = [job EXCEPT ![p] = [job[p] EXCEPT !.seen = a]]
  BY DEF Receive, Move, node
<1>4. /\ job'[p].address = job[p].address /\ job'[p].seen = a
      /\ \A q \in Procs \ {p} : job'[q] = job[q]
      /\ \A q \in Procs : pc'[q] = pc[q]
  BY <1>1, <1>3 DEF Jobs
<1>5. Settled' = Settled
  <2>1. \A q \in Procs : job'[q].address = job[q].address
    BY <1>4
  <2> QED
    BY <1>3, <1>4, <2>1 DEF Settled
<1> HIDE DEF a
<1>6. (1 .. high') \ (Settled' \cup {a}) \subseteq (1 .. high) \ Settled
  BY <1>2, <1>5, CountTypes
<1>7. Cardinality(Lost)' <= faults' + received'
  <2>1. Cardinality((1 .. high') \ (Settled' \cup {a})) <= Cardinality((1 .. high) \ Settled)
    BY <1>2, <1>6, CountTypes, LosesNone
  <2>2. Lost' = (1 .. high') \ Settled' /\ Lost = (1 .. high) \ Settled
    BY DEF Lost
  <2>3. Cardinality(Lost') <= Cardinality((1 .. high') \ (Settled' \cup {a})) + 1
    BY <1>2, <2>2, LosesOne
  <2>4. Cardinality(Lost') \in Nat /\ Cardinality((1 .. high') \ (Settled' \cup {a})) \in Nat
    BY <1>2, <2>2, LostFinite
  <2>5. Cardinality(Lost') <= faults + (received + 1)
    BY <2>1, <2>2, <2>3, <2>4, CountTypes DEF LostInv
  <2> QED
    BY <1>3, <2>5
<1>8. \A q \in Procs : pc'[q] \in Early => job'[q].address = 0
  BY <1>4 DEF LostInv
<1>9. \A q \in Procs : pc'[q] = "synced" => job'[q].seen <= high'
  BY <1>2, <1>4, SeenStays
<1> QED
  BY <1>2, <1>7, <1>8, <1>9 DEF LostInv

(* A transaction that is replaced costs a failure, and there is one at most*)
LEMMA SubmitReach ==
  ASSUME TypeInv, LostInv, PoolNonces, NEW p \in Procs, Submit(p) PROVE LostInv'
<1>1. PICK answered \in BOOLEAN :
        pool' = (pool \ Replaced(Transaction(p)))
                  \cup {[Transaction(p) EXCEPT !.reported = answered]}
  BY DEF Submit
<1>2. [Transaction(p) EXCEPT !.reported = answered].address = job[p].address
  BY DEF Transaction
<1>3. /\ pc' = [pc EXCEPT ![p] = "idle"] /\ job' = [job EXCEPT ![p] = NoJob]
      /\ UNCHANGED wallet /\ paid' = paid
      /\ faults' = faults + (IF Replaced(Transaction(p)) = {} THEN 0 ELSE 1)
  BY DEF Submit
<1>4. \A q \in Procs : pc[q] # "refused" =>
        \/ q = p
        \/ pc'[q] # "refused" /\ job'[q] = job[q]
  BY <1>3 DEF TypeInv, AccountTypeOK
<1>5. job[p].address \in {t.address : t \in pool'}
  BY <1>1, <1>2
<1>6. CASE Replaced(Transaction(p)) = {}
  <2>1. pool \subseteq pool'
    BY <1>1, <1>6
  <2>2. Settled \subseteq Settled'
    BY <1>3, <1>4, <1>5, <2>1 DEF Settled
  <2>3. faults' = faults
    BY <1>3, <1>6, CountTypes
  <2> QED
    BY <1>3, <2>2, <2>3, NothingLost, EndsEarly DEF LostInv, wallet
<1>7. CASE Replaced(Transaction(p)) # {}
  <2>1. PICK t \in pool : Replaced(Transaction(p)) = {t}
    BY <1>7 DEF PoolNonces, Replaced
  <2>2. pool \subseteq pool' \cup {t}
    BY <1>1, <2>1
  <2>3. Settled \subseteq Settled' \cup {t.address}
    BY <1>3, <1>4, <1>5, <2>2 DEF Settled
  <2>4. faults' = faults + 1
    BY <1>3, <1>7
  <2> QED
    BY <1>3, <2>3, <2>4, OneLost, EndsEarly DEF LostInv, wallet
<1> QED
  BY <1>6, <1>7

LEMMA RefusedReach ==
  ASSUME TypeInv, LostInv, NEW p \in Procs, SubmitRefused(p) PROVE LostInv'
<1>1. /\ pc' = [pc EXCEPT ![p] = "refused"] /\ faults' = faults + 1
      /\ UNCHANGED <<pool, paid, job, wallet>>
  BY DEF SubmitRefused, node
<1>2. Settled \subseteq Settled' \cup {job[p].address}
  BY <1>1 DEF Settled, TypeInv, AccountTypeOK
<1>3. Cardinality(Lost)' <= faults' + received'
  BY <1>1, <1>2, OneLost DEF wallet
<1> QED
  BY <1>1, <1>3 DEF LostInv, TypeInv, AccountTypeOK, Early, wallet

LEMMA CommandReach ==
  ASSUME TypeInv, LostInv, PoolNonces, NEW p \in Procs, Command(p) PROVE LostInv'
<1>1. job[p] \in Jobs /\ job[p].kind = job[p].kind
  BY DEF TypeInv, AccountTypeOK
<1>2. ASSUME Begin(p) PROVE LostInv'
  <2>1. PICK k \in Kinds, plain \in BOOLEAN, a \in UserAmounts \cup {0} :
          Move(p, "idle", "begun", [NoJob EXCEPT !.kind = k, !.plain = plain, !.amount = a])
    BY <1>2 DEF Begin
  <2>2. [NoJob EXCEPT !.kind = k, !.plain = plain, !.amount = a].address = 0
    BY DEF NoJob
  <2>3. job[p].address = 0
    BY <2>1 DEF LostInv, Early, Move
  <2> QED
    BY <1>2, <2>1, <2>2, <2>3, MoveKeepsReach DEF Begin, node, Early
<1>3. ASSUME Fail(p) \/ AmountRefused(p) PROVE LostInv'
  BY <1>3, ExitLoses DEF Fail, AmountRefused, node
<1>4. ASSUME NothingToDrain(p) \/ InsufficientGas(p) \/ End(p) \/ Received(p) PROVE LostInv'
  BY <1>4, ExitLoses DEF NothingToDrain, InsufficientGas, End, Received, node, Early
<1>5. ASSUME ReadBalance(p) PROVE LostInv'
  <2>1. [job[p] EXCEPT !.balance = balance, !.seen = income].address = job[p].address
    BY <1>1 DEF Jobs
  <2> QED
    BY <1>5, <2>1, MoveKeepsReach DEF ReadBalance, node, Early
<1>6. ASSUME ReadGasPrice(p) \/ EstimateGas(p) PROVE LostInv'
  <2>1. /\ [job[p] EXCEPT !.price = gasPrice].address = job[p].address
        /\ [job[p] EXCEPT !.gas = GasOf(job[p]), !.balance = 0,
                          !.value = MaxAlpenDrainValue(job[p])].address = job[p].address
    BY <1>1 DEF Jobs
  <2> QED
    BY <1>6, <2>1, MoveKeepsReach DEF ReadGasPrice, EstimateGas, node, Early
<1>7. ASSUME RequestTransfer(p) \/ WithdrawalRequest(p) PROVE LostInv'
  <2>1. ASSUME NEW v PROVE [job[p] EXCEPT !.value = v, !.amount = 0].address = job[p].address
    BY <1>1 DEF Jobs
  <2> QED
    BY <1>7, <2>1, MoveKeepsReach DEF RequestTransfer, WithdrawalRequest, node, Early
<1>8. ASSUME SyncWallet(p) PROVE LostInv'
  <2>1. /\ [job[p] EXCEPT !.seen = revealed].address = job[p].address
        /\ [job[p] EXCEPT !.seen = revealed].seen <= high
    BY <1>1, CountTypes DEF Jobs, LostInv
  <2> QED
    BY <1>8, <2>1, MoveKeepsReach DEF SyncWallet, node, Early
<1>9. ASSUME GivenAddress(p) PROVE LostInv'
  <2>1. [job[p] EXCEPT !.seen = 0].address = job[p].address
    BY <1>1 DEF Jobs
  <2> QED
    BY <1>9, <2>1, MoveKeepsReach DEF GivenAddress, node, Early
<1>10. ASSUME Fill(p) PROVE LostInv'
  <2>1. PICK n \in PendingNonces :
          Move(p, "request", "filled", [Filled(job[p]) EXCEPT !.nonce = n])
    BY <1>10 DEF Fill
  <2>2. [Filled(job[p]) EXCEPT !.nonce = n].address = job[p].address
    BY <1>1 DEF Filled, Jobs
  <2> QED
    BY <1>10, <2>1, <2>2, MoveKeepsReach DEF Fill, node, Early
<1> QED
  BY <1>2, <1>3, <1>4, <1>5, <1>6, <1>7, <1>8, <1>9, <1>10, RevealReach, ReceiveReach, SubmitReach, RefusedReach
     DEF Command, Drain, Withdraw, SendTransaction

LEMMA LostInvariance == Spec => []LostInv
<1>1. Init => LostInv
  <2> SUFFICES ASSUME Init PROVE LostInv
    OBVIOUS
  <2>1. Lost = {}
    BY DEF Init, Lost
  <2> QED
    BY <2>1, FS_EmptySet DEF Init, LostInv, NoJob
<1>2. TypeInv /\ IInv /\ LostInv /\ [Next]_vars => LostInv'
  <2>1. ASSUME UNCHANGED vars, LostInv PROVE LostInv'
    BY <2>1 DEF vars, node, process, wallet, LostInv, Lost, Settled
  <2> QED
    BY <2>1, NodeReach, CommandReach DEF Next, IInv
<1> QED
  BY <1>1, <1>2, Invariance, PTL DEF Spec

(***************************************************************************)
(* With fewer failures and addresses revealed for something else than the  *)
(* gap limit, every address that a withdrawal pays is within reach of a    *)
(* restored wallet's scan, for any number of commands at once and whatever *)
(* count they write over another's.                                        *)
(***************************************************************************)
THEOREM WithdrawalsAreReachable ==
  ASSUME MaxFaults + MaxReceived < GapLimit PROVE Spec => []WithdrawalsReachable
<1>1. ASSUME TypeInv, OwedInv, LostInv, NEW c \in Owed, NEW a \in 0 .. c - 1,
             \A u \in Owed : ~(a < u /\ u <= a + GapLimit)
      PROVE  FALSE
  <2> DEFINE Gap == a + 1 .. a + GapLimit
  <2>1. c \in Nat /\ c <= high /\ high \in Nat /\ GapLimit \in Nat
    BY <1>1, CountTypes, GapLimitAssumption
       DEF OwedInv, Owed, TypeInv, AccountTypeOK, Transactions, Jobs
  <2>2. a + GapLimit < c
    BY <1>1, <2>1
  <2>3. Gap \cap Owed = {}
    BY <1>1, <2>1
  <2>4. Settled \subseteq Owed
    BY DEF Settled, Owed
  <2>5. Gap \subseteq Lost
    BY <2>1, <2>2, <2>3, <2>4 DEF Lost
  <2>6. Cardinality(Gap) = GapLimit
    BY <2>1, FS_Interval
  <2>7. IsFiniteSet(Lost)
    BY <2>1, LostFinite DEF Lost
  <2> HIDE DEF Gap
  <2>8. GapLimit <= Cardinality(Lost)
    BY <2>5, <2>6, <2>7, FS_Subset
  <2>9. /\ Cardinality(Lost) <= faults + received
        /\ faults <= MaxFaults /\ received <= MaxReceived
        /\ MaxFaults \in Nat /\ MaxReceived \in Nat
    BY <1>1, AccountAssumption DEF LostInv, TypeInv, AccountTypeOK
  <2>10. Cardinality(Lost) \in Nat /\ faults \in Nat /\ received \in Nat
    BY <1>1, CountTypes
  <2> QED
    BY <2>1, <2>8, <2>9, <2>10
<1>2. TypeInv /\ OwedInv /\ LostInv => WithdrawalsReachable
  BY <1>1 DEF WithdrawalsReachable, Reachable
<1> QED
  BY <1>2, Typed, OwedInvariance, LostInvariance, PTL

-----------------------------------------------------------------------------
(* What the bridge is asked for.                                           *)

\* An amount in wei that the bridge pays out: whole denominations, within its limit.
Payable(value) ==
  \E sats \in Nat : ValidateWithdrawalAmount(sats) /\ value = sats * SatsToWei

Withdrawals ==
  /\ \A p \in Procs :
       job[p].kind = "withdraw" /\ pc[p] \in {"request", "filled", "refused"} => Payable(job[p].value)
  /\ \A p \in Procs : pc[p] \in {"balance", "priced"} => job[p].kind = "drain"
  /\ \A t \in pool : t.kind = "withdraw" => Payable(t.value)

(***************************************************************************)
(* However a withdrawal came into the pool (the default amount or the      *)
(* user's, over any prompts, prices and faults), it is for whole           *)
(* denominations and within the limit: validate_withdrawal_amount stands   *)
(* on every way to a transaction.                                          *)
(***************************************************************************)
THEOREM WithdrawalsArePayable ==
  Spec => [](\A t \in pool : t.kind = "withdraw" => Payable(t.value))
<1>1. Init => Withdrawals
  BY DEF Init, Withdrawals, NoJob
<1>2. TypeInv /\ IInv /\ Withdrawals /\ [Next]_vars => Withdrawals'
  <2> SUFFICES ASSUME TypeInv, IInv, Withdrawals, [Next]_vars PROVE Withdrawals'
    OBVIOUS
  <2>0. /\ pc \in [Procs -> Steps] /\ job \in [Procs -> Jobs]
        /\ \A p \in Procs : pc[p] = "revealed" => job[p].kind = "withdraw"
    BY DEF TypeInv, AccountTypeOK, IInv, ProcInv
  <2>1. ASSUME NEW p \in Procs, WithdrawalRequest(p) PROVE Withdrawals'
    <3> DEFINE sats == ResolveWithdrawalAmount(job[p].amount)
    <3>1. sats \in Nat /\ ValidateWithdrawalAmount(sats)
      BY <2>0, <2>1, AccountAssumption DEF WithdrawalRequest, ResolveWithdrawalAmount, Jobs
    <3>2. /\ pc' = [pc EXCEPT ![p] = "request"] /\ pool' = pool
          /\ job' = [job EXCEPT ![p] = [job[p] EXCEPT !.value = sats * SatsToWei, !.amount = 0]]
      BY <2>1 DEF WithdrawalRequest, Move, node
    <3> HIDE DEF sats
    <3>3. job'[p].value = sats * SatsToWei
      BY <2>0, <3>2 DEF Jobs
    <3>4. Payable(job'[p].value)
      BY <3>1, <3>3 DEF Payable
    <3> QED
      BY <2>0, <3>2, <3>4 DEF Withdrawals
  <2>2. ASSUME NEW p \in Procs, Fill(p) PROVE Withdrawals'
    <3>1. PICK n \in PendingNonces :
            Move(p, "request", "filled", [Filled(job[p]) EXCEPT !.nonce = n])
      BY <2>2 DEF Fill
    <3>2. /\ job'[p].kind = job[p].kind /\ job'[p].value = job[p].value
          /\ pc[p] = "request" /\ pc' = [pc EXCEPT ![p] = "filled"] /\ pool' = pool
          /\ \A q \in Procs \ {p} : job'[q] = job[q]
      BY <2>0, <2>2, <3>1 DEF Fill, Move, Filled, Jobs, node
    <3> QED
      BY <2>0, <3>2 DEF Withdrawals
  <2>3. ASSUME NEW p \in Procs, Submit(p) PROVE Withdrawals'
    <3>1. PICK answered \in BOOLEAN :
            pool' = (pool \ Replaced(Transaction(p)))
                      \cup {[Transaction(p) EXCEPT !.reported = answered]}
      BY <2>3 DEF Submit
    <3> DEFINE t == [Transaction(p) EXCEPT !.reported = answered]
    <3>2. t.kind = job[p].kind /\ t.value = job[p].value /\ pc[p] = "filled"
      BY <2>3 DEF Submit, Transaction
    <3>3. pc' = [pc EXCEPT ![p] = "idle"] /\ job' = [job EXCEPT ![p] = NoJob]
      BY <2>3 DEF Submit
    <3> HIDE DEF t
    <3> QED
      BY <2>0, <3>1, <3>2, <3>3 DEF Withdrawals, t
  <2>4. ASSUME NEW p \in Procs,
               \/ Begin(p) \/ Drain(p) \/ SyncWallet(p) \/ RevealAddress(p) \/ GivenAddress(p)
               \/ RequestTransfer(p) \/ SubmitRefused(p) \/ Receive(p)
        PROVE  Withdrawals'
    <3>1. pool' = pool
      BY <2>4 DEF Begin, Drain, ReadBalance, NothingToDrain, ReadGasPrice, EstimateGas,
         InsufficientGas, SyncWallet, RevealAddress, GivenAddress, RequestTransfer,
         SubmitRefused, Receive, node
    <3>2. \A q \in Procs \ {p} : job'[q] = job[q] /\ pc'[q] = pc[q]
      BY <2>0, <2>4 DEF Begin, Drain, ReadBalance, NothingToDrain, ReadGasPrice, EstimateGas,
         InsufficientGas, SyncWallet, RevealAddress, GivenAddress, RequestTransfer,
         SubmitRefused, Receive, Move, Exit
    <3>3. /\ pc'[p] \in {"balance", "priced"} => job'[p].kind = "drain"
          /\ job'[p].kind = "withdraw" /\ pc'[p] \in {"request", "filled", "refused"}
               => Payable(job'[p].value)
      <4>1. CASE Begin(p) \/ SyncWallet(p)
        BY <2>0, <4>1 DEF Begin, SyncWallet, Move
      <4>2. CASE RevealAddress(p) \/ GivenAddress(p) \/ Receive(p)
        BY <2>0, <4>2 DEF RevealAddress, GivenAddress, Receive, Move, Jobs
      <4>3. CASE RequestTransfer(p)
        BY <2>0, <4>3 DEF RequestTransfer, Move, Jobs
      <4>5. CASE ReadBalance(p)
        BY <2>0, <4>5 DEF ReadBalance, Move, Jobs
      <4>6. CASE ReadGasPrice(p) \/ EstimateGas(p)
        <5>1. job[p].kind = "drain"
          BY <4>6 DEF ReadGasPrice, EstimateGas, Move, Withdrawals
        <5>2. CASE ReadGasPrice(p)
          BY <2>0, <5>1, <5>2 DEF ReadGasPrice, Move, Jobs
        <5>3. CASE EstimateGas(p)
          BY <2>0, <5>1, <5>3 DEF EstimateGas, Move, Jobs
        <5> QED
          BY <4>6, <5>2, <5>3
      <4>7. CASE NothingToDrain(p) \/ InsufficientGas(p)
        BY <2>0, <4>7 DEF NothingToDrain, InsufficientGas, Exit
      <4>4. CASE SubmitRefused(p)
        BY <2>0, <4>4 DEF SubmitRefused, Withdrawals
      <4> QED
        BY <2>4, <4>1, <4>2, <4>3, <4>4, <4>5, <4>6, <4>7 DEF Drain
    <3> QED
      BY <3>1, <3>2, <3>3 DEF Withdrawals
  <2>5. ASSUME NEW p \in Procs, Fail(p) \/ AmountRefused(p) \/ End(p) \/ Received(p) PROVE Withdrawals'
    BY <2>0, <2>5 DEF Fail, AmountRefused, End, Received, Exit, NoJob, node, Withdrawals
  <2>6. CASE Node
    BY <2>6 DEF Node, Arrive, PriceMoves, Execute, Revert, DropFromPool, process, Withdrawals
  <2>7. CASE UNCHANGED vars
    BY <2>7 DEF vars, node, process, Withdrawals
  <2> QED
    BY <2>1, <2>2, <2>3, <2>4, <2>5, <2>6, <2>7
       DEF Next, Command, Withdraw, SendTransaction
<1>3. Withdrawals => \A t \in pool : t.kind = "withdraw" => Payable(t.value)
  BY DEF Withdrawals
<1> QED
  BY <1>1, <1>2, <1>3, Invariance, PTL DEF Spec
=============================================================================
