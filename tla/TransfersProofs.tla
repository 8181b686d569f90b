--------------------------- MODULE TransfersProofs ---------------------------
(***************************************************************************)
(* Proofs about Transfers, for any number of processes, coins, amounts and *)
(* rates.  What carries those about what commands do to each other is      *)
(* TransfersInv: while nothing has overtaken a process its view, and then  *)
(* its transaction, agree with the network, if the backend shows its       *)
(* mempool.  A transaction that stands is the last of those that spend its *)
(* coins, so that no view that has it gives it up.  What carries those     *)
(* about money is that no coin is spent twice in any view of it, so that   *)
(* none that has all its transactions build on has more than the wallet    *)
(* started with; and the network accepts only what builds on what stands.  *)
(***************************************************************************)
EXTENDS Transfers, FiniteSetTheorems, SequenceTheorems, TLAPS

(* What is known of the shape of the state: transactions and jobs are      *)
(* records over some set of transactions.                                  *)
Jobs(T) == [kind : Kinds \cup {"none"}, amount : Nat, view : SUBSET Nat,
            read : SUBSET Nat, missed : SUBSET Nat, tx : T]

ShapeOver(T) == txs \in Seq(T) /\ job \in [Procs -> Jobs(T)]

Shape ==
  /\ \E T : ShapeOver(T)
  /\ backend \in Backends /\ cap \in Nat /\ cap >= BroadcastMin
  /\ mempool \subseteq DOMAIN txs /\ blocks \subseteq DOMAIN txs /\ stored \subseteq DOMAIN txs
  /\ pc \in [Procs -> Steps]
  /\ overtaken \in [Procs -> BOOLEAN]

(* What the invariants say of one process.                                 *)
ProcInv(p) ==
  /\ job[p].view \subseteq DOMAIN txs
  /\ job[p].missed \subseteq blocks /\ (backend = "esplora" => job[p].missed = {})
  /\ pc[p] \in {"begun", "scanned", "synced"} => job[p].kind \in Kinds
  /\ pc[p] = "scanned" => backend = "core" /\ job[p].read \subseteq blocks
  /\ ~Lagging /\ ~overtaken[p] =>
       /\ pc[p] = "synced" => ViewCurrent(p)
       /\ pc[p] = "built" => BuiltCurrent(p)
       /\ pc[p] = "refused" => backend = "core"
       /\ pc[p] = "sent" /\ job[p].kind = "drain" /\ backend = "esplora" => Unspent(Alive) = {}

(* A transaction that stands came after all it conflicts with.             *)
Lasting == \A t \in Alive, u \in DOMAIN txs : Conflict(t, u) => u \notin Alive /\ u < t

(* The inductive invariant.                                                *)
IInv == Shape /\ AliveClosed /\ Lasting /\ \A p \in Procs : ProcInv(p)

LEMMA IInvImplies ==
  Lagging = FALSE /\ IInv => TransfersInv /\ RefusedOnlyIfOvertaken /\ DrainTakesAll
BY DEF IInv, ProcInv, TransfersInv, RefusedOnlyIfOvertaken, DrainTakesAll

-----------------------------------------------------------------------------
(* Transactions that build on others.                                      *)

(* WithParents yields a part of the set that is closed, *)
LEMMA WithParentsClosed ==
  ASSUME NEW S
  PROVE  /\ WithParents(S) \subseteq S
         /\ \A t \in WithParents(S) : Parents(t) \subseteq WithParents(S)
BY DEF WithParents

(* and the largest one. *)
LEMMA WithParentsLargest ==
  ASSUME NEW S, NEW T \in SUBSET S, \A t \in T : Parents(t) \subseteq T
  PROVE  T \subseteq WithParents(S)
BY DEF WithParents

(* A transaction that shares no coin with what stands replaces nothing.    *)
LEMMA NothingReplaced ==
  ASSUME NEW x, AliveClosed, \A t \in Alive : txs[t].inputs \cap x.inputs = {}
  PROVE  Replaced(x) = {}
<1>1. {t \in Alive : txs[t].inputs \cap x.inputs = {}} = Alive
  OBVIOUS
<1>2. Alive \subseteq WithParents(Alive)
  BY WithParentsLargest DEF AliveClosed
<1> QED
  BY <1>1, <1>2 DEF Replaced, Alive

-----------------------------------------------------------------------------
(* The initial states and the steps of one process.                        *)

LEMMA InitInv == Init => IInv
<1> SUFFICES ASSUME Init PROVE IInv
  OBVIOUS
<1>1. txs \in Seq({NoTx}) /\ DOMAIN txs = {}
  BY DEF Init
<1>2. NoJob \in Jobs({NoTx})
  BY DEF NoJob, Jobs
<1>3. job \in [Procs -> Jobs({NoTx})]
  BY <1>2 DEF Init
<1>4. Shape
  BY <1>1, <1>3, TransfersAssumption DEF Init, Shape, ShapeOver, AcceptedCaps, BroadcastMin, Steps
<1> QED
  BY <1>4 DEF Init, IInv, AliveClosed, Lasting, Alive, ProcInv, NoJob

(* A job that a command starts, goes on with or leaves.                    *)
LEMMA JobShape ==
  ASSUME NEW T, NEW j \in Jobs(T), NEW U, T \subseteq U
  PROVE  j \in Jobs(U)
BY DEF Jobs

LEMMA NewJob ==
  ASSUME NEW U, NoTx \in U, NEW k \in Kinds \cup {"none"}
  PROVE  /\ NoJob \in Jobs(U) /\ NoJob.view = {} /\ NoJob.missed = {}
         /\ [NoJob EXCEPT !.kind = k] \in Jobs(U)
         /\ [NoJob EXCEPT !.kind = k].kind = k
         /\ [NoJob EXCEPT !.kind = k].view = {}
         /\ [NoJob EXCEPT !.kind = k].missed = {}
BY DEF Jobs, NoJob

LEMMA BegunJob ==
  ASSUME NEW U, NoTx \in U, NEW k \in Kinds \cup {"none"}, NEW a \in Nat,
         NEW v \in SUBSET Nat
  PROVE  [NoJob EXCEPT !.kind = k, !.amount = a, !.view = v] \in Jobs(U)
BY DEF Jobs, NoJob

(* A larger set of transactions does as well.                              *)
LEMMA ShapeGrows ==
  ASSUME NEW T, ShapeOver(T), NEW U, T \subseteq U
  PROVE  ShapeOver(U)
<1>1. txs \in Seq(U)
  BY DEF ShapeOver
<1>2. \A p \in Procs : job[p] \in Jobs(U)
  BY JobShape DEF ShapeOver
<1>3. job = [p \in Procs |-> job[p]]
  BY DEF ShapeOver
<1> QED
  BY <1>1, <1>2, <1>3 DEF ShapeOver

-----------------------------------------------------------------------------
(* Steps of one process that leave the network's transactions alone.       *)

LEMMA QuietStep ==
  ASSUME IInv, Shape', UNCHANGED <<backend, cap, txs, mempool, blocks>>, NEW p \in Procs,
         \A q \in Procs \ {p} : pc'[q] = pc[q] /\ job'[q] = job[q] /\ overtaken'[q] = overtaken[q],
         ProcInv(p)'
  PROVE  IInv'
<1>1. Alive' = Alive /\ Unspent(Alive)' = Unspent(Alive)
  BY DEF Alive, Unspent
<1>2. AliveClosed'
  BY <1>1 DEF IInv, AliveClosed, Parents
<1>4. Lasting'
  BY <1>1 DEF IInv, Lasting, Conflict
<1>3. ASSUME NEW q \in Procs \ {p} PROVE ProcInv(q)'
  <2>1. ViewCurrent(q)' = ViewCurrent(q)
    BY <1>1 DEF ViewCurrent
  <2>2. BuiltCurrent(q)' = BuiltCurrent(q)
    BY <1>1 DEF BuiltCurrent
  <2> QED
    BY <1>1, <2>1, <2>2 DEF IInv, ProcInv
<1> QED
  BY <1>2, <1>3, <1>4 DEF IInv

LEMMA BeginInv ==
  ASSUME IInv, NEW p \in Procs, Begin(p) PROVE IInv'
<1>1. PICK k \in Kinds, a \in Amounts \cup {0} :
        job' = [job EXCEPT ![p] = [NoJob EXCEPT !.kind = k, !.amount = a, !.view = stored]]
  BY DEF Begin
<1>2. PICK T : ShapeOver(T)
  BY DEF IInv, Shape
<1>3. ShapeOver(T \cup {NoTx})
  BY <1>2, ShapeGrows
<1>4. [NoJob EXCEPT !.kind = k, !.amount = a, !.view = stored] \in Jobs(T \cup {NoTx})
  <2>1. k \in Kinds \cup {"none"} /\ NoTx \in T \cup {NoTx}
    OBVIOUS
  <2>2. a \in Nat
    BY TransfersAssumption
  <2>3. stored \in SUBSET Nat
    BY <1>2 DEF IInv, Shape, ShapeOver
  <2> QED
    BY <2>1, <2>2, <2>3, BegunJob
<1>5. ShapeOver(T \cup {NoTx})'
  BY <1>1, <1>3, <1>4 DEF ShapeOver, Begin, network
<1>6. Shape'
  BY <1>5 DEF IInv, Shape, Begin, network, Steps
<1>7. /\ pc'[p] = "begun" /\ job'[p].kind = k
      /\ job'[p].view = stored /\ job'[p].missed = {}
  BY <1>1, <1>2 DEF IInv, Shape, ShapeOver, Begin, NoJob
<1>9. ProcInv(p)'
  BY <1>7 DEF ProcInv, IInv, Shape, Begin, network
<1>8. \A q \in Procs \ {p} : pc'[q] = pc[q] /\ job'[q] = job[q] /\ overtaken'[q] = overtaken[q]
  BY <1>1, <1>2 DEF IInv, Shape, ShapeOver, Begin
<1> QED
  BY <1>6, <1>8, <1>9, QuietStep DEF Begin, network

LEMMA EndInv ==
  ASSUME IInv, NEW p \in Procs, End(p) PROVE IInv'
<1>1. PICK T : ShapeOver(T)
  BY DEF IInv, Shape
<1>2. ShapeOver(T \cup {NoTx})
  BY <1>1, ShapeGrows
<1>3. NoJob \in Jobs(T \cup {NoTx})
  BY DEF NoJob, Jobs
<1>4. ShapeOver(T \cup {NoTx})'
  BY <1>2, <1>3 DEF ShapeOver, End, Leave, network
<1>5. Shape'
  BY <1>4 DEF IInv, Shape, End, Leave, network, Steps
<1>6. pc'[p] = "idle" /\ ProcInv(p)'
  BY <1>1 DEF IInv, Shape, ShapeOver, End, Leave, ProcInv, NoJob
<1>7. \A q \in Procs \ {p} : pc'[q] = pc[q] /\ job'[q] = job[q] /\ overtaken'[q] = overtaken[q]
  BY <1>1 DEF IInv, Shape, ShapeOver, End, Leave
<1> QED
  BY <1>5, <1>6, <1>7, QuietStep DEF End, network

(* What stands and is known, or is seen, is part of the view after it.     *)
LEMMA StandingIsKept ==
  ASSUME IInv, NEW seen \in SUBSET Alive, NEW known \in SUBSET DOMAIN txs
  PROVE  /\ ViewAfter(known, seen) \subseteq DOMAIN txs
         /\ seen \subseteq ViewAfter(known, seen)
         /\ backend = "esplora" => ViewAfter(known, seen) = seen
         /\ backend # "esplora" => known \cap Alive \subseteq ViewAfter(known, seen)
<1> DEFINE all == known \cup seen
           kept == {t \in all : t \in seen \/ \A u \in all : Conflict(t, u) => u \notin seen /\ u < t}
           T == all \cap Alive
<1>1. Alive \subseteq DOMAIN txs
  BY DEF IInv, Shape, Alive
<1>2. all \subseteq DOMAIN txs
  BY <1>1
<1>3. T \subseteq kept
  BY <1>2 DEF IInv, Lasting
<1>4. \A t \in T : Parents(t) \cap all \subseteq T
  BY DEF IInv, AliveClosed
<1>5. CoreView(known, seen) = UNION {S \in SUBSET kept : \A t \in S : Parents(t) \cap all \subseteq S}
  BY DEF CoreView
<1> HIDE DEF kept
<1>6. T \subseteq CoreView(known, seen) /\ CoreView(known, seen) \subseteq kept
  BY <1>3, <1>4, <1>5
<1>7. kept \subseteq DOMAIN txs
  BY <1>2 DEF kept
<1> QED
  BY <1>1, <1>6, <1>7 DEF ViewAfter, EsploraView

(* What the backend showed is applied.                                     *)
LEMMA ApplyInv ==
  ASSUME IInv, NEW p \in Procs, NEW seen \in SUBSET Alive, Apply(p, seen),
         pc[p] \in {"begun", "scanned"}, UNCHANGED <<backend, cap, network>>,
         backend = "esplora" => blocks \subseteq seen,
         ~Lagging => Alive \ (blocks \ seen) \subseteq seen
  PROVE  IInv'
<1> DEFINE view == ViewAfter(job[p].view, seen)
           missed == blocks \ seen
<1>1. PICK T : ShapeOver(T)
  BY DEF IInv, Shape
<1>2. ShapeOver(T \cup {NoTx})
  BY <1>1, ShapeGrows
<1>3. job[p].view \subseteq DOMAIN txs /\ stored \subseteq DOMAIN txs /\ DOMAIN txs \subseteq Nat
  BY <1>1 DEF IInv, Shape, ShapeOver, ProcInv
<1>4. /\ view \subseteq DOMAIN txs /\ seen \subseteq view
      /\ backend = "esplora" => view = seen
  BY <1>3, StandingIsKept
<1>5. stored' \subseteq DOMAIN txs
  BY <1>3, StandingIsKept DEF Apply
<1>6. missed \subseteq blocks /\ (backend = "esplora" => missed = {})
  OBVIOUS
<1>7. job[p].kind \in Kinds /\ job[p].amount \in Nat
  BY <1>1 DEF ShapeOver, Jobs, IInv, ProcInv
<1>8. missed \in SUBSET Nat /\ view \in SUBSET Nat
  BY <1>3, <1>4, <1>6 DEF IInv, Shape
<1>0. PICK j : j = [NoJob EXCEPT !.kind = job[p].kind, !.amount = job[p].amount,
                              !.view = view, !.missed = missed]
  OBVIOUS
<1>10. job' = [job EXCEPT ![p] = j]
  BY <1>0 DEF Apply
<1> HIDE DEF view, missed
<1>9. /\ j \in Jobs(T \cup {NoTx})
      /\ j.kind = job[p].kind /\ j.view = view /\ j.missed = missed
  <2>1. job[p].kind \in Kinds \cup {"none"} /\ NoTx \in T \cup {NoTx}
    BY <1>7
  <2> QED
    BY <1>0, <1>7, <1>8, <2>1 DEF Jobs, NoJob
<1>11. ShapeOver(T \cup {NoTx})' /\ job'[p] = j
  BY <1>2, <1>9, <1>10 DEF ShapeOver, network
<1>12. Shape'
  BY <1>5, <1>11 DEF IInv, Shape, Apply, network, Steps
<1>13. pc'[p] = "synced"
  BY DEF IInv, Shape, Apply
<1>14. ~Lagging => ViewCurrent(p)'
  <2> SUFFICES ASSUME ~Lagging PROVE ViewCurrent(p)'
    OBVIOUS
  <2>1. Alive' = Alive
    BY DEF Alive, network
  <2>2. Alive \ missed \subseteq view
    BY <1>4 DEF missed
  <2>3. backend = "esplora" => view = Alive
    BY <1>4, <1>6, <2>2
  <2> QED
    BY <1>9, <1>11, <2>1, <2>2, <2>3 DEF ViewCurrent
<1>15. ProcInv(p)'
  BY <1>4, <1>6, <1>7, <1>9, <1>11, <1>13, <1>14 DEF ProcInv, network
<1>16. \A q \in Procs \ {p} : pc'[q] = pc[q] /\ job'[q] = job[q] /\ overtaken'[q] = overtaken[q]
  BY <1>1, <1>10 DEF IInv, Shape, ShapeOver, Apply
<1> QED
  BY <1>12, <1>15, <1>16, QuietStep DEF network

(* Either sync applies part of what stands: all of it on Esplora; on       *)
(* Bitcoin Core all but what was mined between the two reads.              *)
LEMMA SyncApplies ==
  ASSUME IInv, NEW p \in Procs, EsploraSync(p) \/ ReadMempool(p)
  PROVE  /\ \E seen \in SUBSET Alive :
              /\ Apply(p, seen)
              /\ backend = "esplora" => blocks \subseteq seen
              /\ ~Lagging => Alive \ (blocks \ seen) \subseteq seen
         /\ pc[p] \in {"begun", "scanned"} /\ UNCHANGED <<backend, cap, network, reported, drops>>
<1>1. \A pool \in Shown : pool \subseteq mempool /\ (~Lagging => pool = mempool)
  BY DEF Shown
<1>2. CASE EsploraSync(p)
  <2>1. PICK pool \in Shown : Apply(p, blocks \cup pool)
    BY <1>2 DEF EsploraSync
  <2> QED
    BY <1>1, <1>2, <2>1 DEF EsploraSync, Alive
<1>3. CASE ReadMempool(p)
  <2>1. PICK pool \in Shown : Apply(p, job[p].read \cup pool)
    BY <1>3 DEF ReadMempool
  <2>2. backend = "core" /\ job[p].read \subseteq blocks
    BY <1>3 DEF IInv, ProcInv, ReadMempool
  <2> QED
    BY <1>1, <1>3, <2>1, <2>2 DEF ReadMempool, Alive
<1> QED
  BY <1>2, <1>3

LEMMA SyncInv ==
  ASSUME IInv, NEW p \in Procs, EsploraSync(p) \/ ReadMempool(p) PROVE IInv'
<1>1. PICK seen \in SUBSET Alive :
        /\ Apply(p, seen)
        /\ backend = "esplora" => blocks \subseteq seen
        /\ ~Lagging => Alive \ (blocks \ seen) \subseteq seen
  BY SyncApplies
<1>2. pc[p] \in {"begun", "scanned"} /\ UNCHANGED <<backend, cap, network>>
  BY SyncApplies
<1> QED
  BY <1>1, <1>2, ApplyInv

LEMMA ReadBlocksInv ==
  ASSUME IInv, NEW p \in Procs, ReadBlocks(p) PROVE IInv'
<1>1. PICK T : ShapeOver(T)
  BY DEF IInv, Shape
<1>0. PICK j : j = [job[p] EXCEPT !.read = blocks]
  OBVIOUS
<1>2. job[p] \in Jobs(T) /\ blocks \in SUBSET Nat
  BY <1>1 DEF IInv, Shape, ShapeOver
<1>3. /\ j \in Jobs(T) /\ j.read = blocks /\ j.view = job[p].view
      /\ j.missed = job[p].missed /\ j.kind = job[p].kind
  BY <1>0, <1>2 DEF Jobs
<1>4. job' = [job EXCEPT ![p] = j]
  BY <1>0 DEF ReadBlocks
<1>5. ShapeOver(T)' /\ job'[p] = j
  BY <1>1, <1>3, <1>4 DEF ShapeOver, ReadBlocks, network
<1>6. Shape'
  BY <1>5 DEF IInv, Shape, ReadBlocks, network, Steps
<1>7. pc'[p] = "scanned"
  BY DEF IInv, Shape, ReadBlocks
<1>8. ProcInv(p)'
  BY <1>3, <1>5, <1>7 DEF IInv, ProcInv, ReadBlocks, network
<1>9. \A q \in Procs \ {p} : pc'[q] = pc[q] /\ job'[q] = job[q] /\ overtaken'[q] = overtaken[q]
  BY <1>1, <1>4 DEF IInv, Shape, ShapeOver, ReadBlocks
<1> QED
  BY <1>6, <1>8, <1>9, QuietStep DEF ReadBlocks, network

(* A fee rate a command goes on with is between the minimum and the cap.   *)
LEMMA RateWithinCap ==
  ASSUME Shape, NEW rate \in GetFeeRate
  PROVE  rate \in BroadcastMin .. cap
<1>1. UserRates \subseteq Nat /\ \A e \in Estimates : e \in Nat
  BY TransfersAssumption
<1>2. \A e \in Nat : e \div 2 \in Nat
  OBVIOUS
<1>3. EstimatedRates \subseteq Nat
  BY <1>1, <1>2 DEF EstimatedRates, BroadcastMin
<1>4. PICK r \in UserRates \cup EstimatedRates : r <= cap /\ rate = Larger(r, BroadcastMin)
  BY DEF GetFeeRate
<1> QED
  BY <1>1, <1>3, <1>4 DEF Shape, Larger, BroadcastMin

(* What is built spends coins of the view only; a drain spends all of them *)
(* and has no change.                                                      *)
LEMMA BuiltFrom ==
  ASSUME NEW j, NEW rate, NEW x \in Built(j, rate), j.kind \in Kinds
  PROVE  /\ x.inputs \subseteq Unspent(j.view)
         /\ j.kind = "drain" => x.inputs = Unspent(j.view) /\ x.change = 0
<1>1. CASE j.kind = "send"
  BY <1>1 DEF Built, BuildTransfer, Payment
<1>2. CASE j.kind = "drain"
  BY <1>2 DEF Built, BuildDrain
<1>3. CASE j.kind = "deposit"
  BY <1>3 DEF Built, BuildDepositRequest, Payment
<1> QED
  BY <1>1, <1>2, <1>3 DEF Kinds

LEMMA BuildInv ==
  ASSUME IInv, NEW p \in Procs, Build(p) PROVE IInv'
<1>1. PICK T : ShapeOver(T)
  BY DEF IInv, Shape
<1>0. PICK rate \in GetFeeRate : \E x \in Built(job[p], rate) :
        job' = [job EXCEPT ![p] = [NoJob EXCEPT !.kind = job[p].kind, !.missed = job[p].missed, !.tx = x]]
  BY DEF Build
<1>2. PICK x \in Built(job[p], rate) :
        job' = [job EXCEPT ![p] = [NoJob EXCEPT !.kind = job[p].kind, !.missed = job[p].missed, !.tx = x]]
  BY <1>0
<1>11. PICK j : j = [NoJob EXCEPT !.kind = job[p].kind, !.missed = job[p].missed, !.tx = x]
  OBVIOUS
<1>3. job[p].kind \in Kinds \cup {"none"} /\ job[p].missed \in SUBSET Nat
  BY <1>1 DEF ShapeOver, Jobs
<1>4. /\ j \in Jobs(T \cup {x}) /\ j.kind = job[p].kind /\ j.missed = job[p].missed
      /\ j.view = {} /\ j.tx = x
  BY <1>3, <1>11 DEF Jobs, NoJob
<1>5. ShapeOver(T \cup {x})
  BY <1>1, ShapeGrows
<1>9. job' = [job EXCEPT ![p] = j]
  BY <1>2, <1>11
<1>6. ShapeOver(T \cup {x})' /\ job'[p] = j
  BY <1>4, <1>5, <1>9 DEF ShapeOver, Build, network
<1>7. Shape'
  BY <1>6 DEF IInv, Shape, Build, network, Steps
<1>8. job[p].kind \in Kinds
  BY DEF IInv, ProcInv, Build
<1>10. ASSUME ~Lagging, ~overtaken[p] PROVE BuiltCurrent(p)'
  <2>1. ViewCurrent(p)
    BY <1>10 DEF IInv, ProcInv, Build
  <2>2. x.inputs \subseteq Unspent(job[p].view)
    BY <1>8, BuiltFrom
  <2>3. \A t \in Alive \ job[p].missed : txs[t].inputs \cap x.inputs = {}
    BY <2>1, <2>2 DEF ViewCurrent, Unspent
  <2>4. ASSUME backend = "esplora", NEW c \in x.inputs, c > InitialCoins
        PROVE  c - InitialCoins \in Alive
    <3>1. c \in Unspent(Alive)
      BY <2>1, <2>2, <2>4 DEF ViewCurrent
    <3>2. c \notin 1 .. InitialCoins
      BY <2>4, TransfersAssumption
    <3>3. PICK t \in Alive : c = InitialCoins + t
      BY <3>1, <3>2 DEF Unspent
    <3>4. t \in Nat
      BY <1>1 DEF IInv, Shape, ShapeOver, Alive
    <3> QED
      BY <3>3, <3>4, TransfersAssumption
  <2>5. backend = "esplora" /\ job[p].kind = "drain" => x.inputs = Unspent(Alive) /\ x.change = 0
    BY <1>8, <2>1, BuiltFrom DEF ViewCurrent
  <2>6. Alive' = Alive /\ Unspent(Alive)' = Unspent(Alive)
    BY DEF Build, network, Alive, Unspent
  <2> QED
    BY <1>4, <1>6, <2>3, <2>4, <2>5, <2>6 DEF BuiltCurrent, Build, network
<1>13. ProcInv(p)'
  BY <1>4, <1>6, <1>10 DEF IInv, Shape, ProcInv, Build, network
<1>12. \A q \in Procs \ {p} : pc'[q] = pc[q] /\ job'[q] = job[q] /\ overtaken'[q] = overtaken[q]
  BY <1>1, <1>9 DEF IInv, Shape, ShapeOver, Build
<1> QED
  BY <1>7, <1>12, <1>13, QuietStep DEF Build, network

(* What nothing overtook is accepted on Esplora, and if it is accepted it  *)
(* replaces nothing.                                                       *)
LEMMA CurrentIsAccepted ==
  ASSUME Lagging = FALSE, IInv, NEW p \in Procs, pc[p] = "built", ~overtaken[p]
  PROVE  /\ Accepts(job[p].tx) => Replaced(job[p].tx) = {}
         /\ backend = "esplora" => Accepts(job[p].tx) /\ Replaced(job[p].tx) = {}
<1>1. BuiltCurrent(p) /\ job[p].missed \subseteq blocks /\ (backend = "esplora" => job[p].missed = {})
  BY DEF IInv, ProcInv
<1>2. ASSUME Accepts(job[p].tx) PROVE \A t \in Alive : txs[t].inputs \cap job[p].tx.inputs = {}
  BY <1>1, <1>2 DEF BuiltCurrent, Accepts
<1>3. backend = "esplora" => \A t \in Alive : txs[t].inputs \cap job[p].tx.inputs = {}
  BY <1>1 DEF BuiltCurrent
<1>4. backend = "esplora" => Replaced(job[p].tx) = {}
  BY <1>3, NothingReplaced DEF IInv
<1>5. Accepts(job[p].tx) => Replaced(job[p].tx) = {}
  BY <1>2, NothingReplaced DEF IInv
<1> QED
  BY <1>1, <1>3, <1>4, <1>5 DEF BuiltCurrent, Accepts, Alive

LEMMA BroadcastRefusedInv ==
  ASSUME IInv, NEW p \in Procs, BroadcastRefused(p) PROVE IInv'
<1>1. PICK T : ShapeOver(T)
  BY DEF IInv, Shape
<1>2. ShapeOver(T \cup {NoTx})
  BY <1>1, ShapeGrows
<1>3. NoJob \in Jobs(T \cup {NoTx})
  BY DEF NoJob, Jobs
<1>4. ShapeOver(T \cup {NoTx})'
  BY <1>2, <1>3 DEF ShapeOver, BroadcastRefused, network
<1>5. Shape'
  BY <1>4 DEF IInv, Shape, BroadcastRefused, network, Steps
<1>6. ~Lagging /\ ~overtaken[p] => backend # "esplora"
  BY CurrentIsAccepted, TransfersAssumption DEF BroadcastRefused
<1>7. pc'[p] = "refused" /\ (~Lagging /\ ~overtaken'[p] => backend' = "core")
  BY <1>6, TransfersAssumption DEF IInv, Shape, BroadcastRefused
<1>10. job'[p].view = {} /\ job'[p].missed = {}
  BY <1>1 DEF ShapeOver, BroadcastRefused, NoJob
<1>8. ProcInv(p)'
  BY <1>7, <1>10 DEF ProcInv
<1>9. \A q \in Procs \ {p} : pc'[q] = pc[q] /\ job'[q] = job[q] /\ overtaken'[q] = overtaken[q]
  BY <1>1 DEF IInv, Shape, ShapeOver, BroadcastRefused
<1> QED
  BY <1>5, <1>8, <1>9, QuietStep DEF BroadcastRefused, network

-----------------------------------------------------------------------------
(* The network, and the step that changes it.                              *)

LEMMA ConfirmInv ==
  ASSUME IInv, Confirm PROVE IInv'
<1>1. PICK t \in mempool : /\ Parents(t) \subseteq blocks
                           /\ mempool' = mempool \ {t}
                           /\ blocks' = blocks \cup {t}
  BY DEF Confirm
<1>2. Alive' = Alive /\ Unspent(Alive)' = Unspent(Alive)
  BY <1>1 DEF Alive, Unspent, Confirm
<1>3. AliveClosed'
  BY <1>1, <1>2 DEF IInv, AliveClosed, Parents, Confirm
<1>4. Shape'
  BY <1>1 DEF IInv, Shape, ShapeOver, Confirm
<1>6. Lasting'
  BY <1>2 DEF IInv, Lasting, Conflict, Confirm
<1>5. ASSUME NEW p \in Procs PROVE ProcInv(p)'
  <2>1. ViewCurrent(p)' = ViewCurrent(p)
    BY <1>2 DEF ViewCurrent, Confirm
  <2>2. BuiltCurrent(p)' = BuiltCurrent(p)
    BY <1>2 DEF BuiltCurrent, Confirm
  <2> QED
    BY <1>1, <1>2, <2>1, <2>2 DEF IInv, ProcInv, Confirm
<1> QED
  BY <1>3, <1>4, <1>5, <1>6 DEF IInv

(* A process that has been overtaken, or is idle, relies on nothing.       *)
LEMMA OvertakenInv ==
  ASSUME IInv, NEW p \in Procs, UNCHANGED <<backend, cap, blocks>>, DOMAIN txs \subseteq DOMAIN txs',
         pc'[p] = pc[p], job'[p] = job[p], overtaken'[p] \/ pc[p] = "idle"
  PROVE  ProcInv(p)'
BY DEF IInv, ProcInv

LEMMA DropInv ==
  ASSUME IInv, DropFromMempool PROVE IInv'
<1>1. PICK t \in mempool : mempool' = WithParents(Alive \ {t}) \ blocks
  BY DEF DropFromMempool
<1> DEFINE rest == WithParents(Alive \ {t})
<1>2. rest \subseteq Alive /\ \A u \in rest : Parents(u) \subseteq rest
  BY WithParentsClosed
<1>3. Alive' = rest \cup blocks
  BY <1>1 DEF Alive, DropFromMempool
<1>4. AliveClosed'
  BY <1>2, <1>3 DEF IInv, AliveClosed, Parents, DropFromMempool
<1>5. \A p \in Procs : overtaken'[p] \in BOOLEAN /\ (overtaken'[p] \/ pc[p] = "idle")
  BY DEF IInv, Shape, DropFromMempool, Overtake
<1>6. overtaken' \in [Procs -> BOOLEAN]
  BY DEF IInv, Shape, DropFromMempool, Overtake
<1>7. Shape'
  BY <1>1, <1>2, <1>6 DEF IInv, Shape, ShapeOver, DropFromMempool, Alive
<1>8. \A p \in Procs : ProcInv(p)'
  BY <1>5, OvertakenInv DEF DropFromMempool
<1>9. Lasting'
  BY <1>2, <1>3 DEF IInv, Lasting, Conflict, DropFromMempool, Alive
<1> QED
  BY <1>4, <1>7, <1>8, <1>9 DEF IInv

(* The transaction is added and replaces others.  The coins a drain has    *)
(* spent are all there were, and it has no change.                         *)
LEMMA BroadcastInv ==
  ASSUME IInv, NEW p \in Procs, Broadcast(p) PROVE IInv'
<1> DEFINE x == job[p].tx
           kept == WithParents({t \in Alive : txs[t].inputs \cap x.inputs = {}})
<1>1. PICK T : ShapeOver(T)
  BY DEF IInv, Shape
<1>2. x \in T /\ txs \in Seq(T) /\ Len(txs) \in Nat /\ DOMAIN txs = 1 .. Len(txs)
  BY <1>1 DEF ShapeOver, Jobs
<1>0. PICK n \in Nat : n = Len(txs) + 1
  BY <1>2
<1>3. /\ txs' \in Seq(T) /\ DOMAIN txs' = 1 .. n /\ txs'[n] = x
      /\ \A t \in DOMAIN txs : txs'[t] = txs[t]
  BY <1>0, <1>2, AppendProperties DEF Broadcast
<1>4. Alive \subseteq DOMAIN txs /\ n \notin Alive
  BY <1>0, <1>2 DEF IInv, Shape, Alive
<1>5. kept \subseteq Alive /\ \A t \in kept : Parents(t) \subseteq kept
  BY WithParentsClosed
<1>6. Alive \ Replaced(x) \subseteq kept \cup blocks
  BY DEF Replaced, Alive
<1>7. mempool' = (mempool \cap kept) \cup {n} /\ blocks' = blocks
  BY <1>0 DEF Broadcast, Replaced
<1>8. Alive' = (mempool \cap kept) \cup blocks \cup {n}
  BY <1>7 DEF Alive
<1>9. \A t \in Alive : Parents(t)' = Parents(t)
  BY <1>3, <1>4 DEF Parents
<1>10. Parents(n)' \subseteq Alive \ Replaced(x)
  <2>1. \A c \in x.inputs : c > InitialCoins => c - InitialCoins \in Alive \ Replaced(x)
    BY DEF Broadcast, Accepts
  <2>2. Parents(n)' = {c - InitialCoins : c \in {i \in x.inputs : i > InitialCoins}}
    BY <1>3 DEF Parents
  <2> HIDE DEF x
  <2> QED
    BY <2>1, <2>2
<1>11. AliveClosed'
  <2>1. \A t \in blocks : Parents(t)' \subseteq blocks
    BY <1>9 DEF IInv, AliveClosed, Alive
  <2>2. \A t \in mempool \cap kept : Parents(t)' \subseteq (mempool \cap kept) \cup blocks
    BY <1>5, <1>9 DEF Alive
  <2>3. Parents(n)' \subseteq (mempool \cap kept) \cup blocks
    BY <1>5, <1>6, <1>10 DEF Alive
  <2>4. ASSUME NEW t \in Alive' PROVE Parents(t)' \subseteq Alive'
    <3> HIDE DEF kept
    <3> QED
      BY <1>8, <2>1, <2>2, <2>3
  <2> QED
    BY <1>7, <2>1, <2>4 DEF AliveClosed
<1>12. /\ pc' \in [Procs -> Steps] /\ overtaken' \in [Procs -> BOOLEAN]
       /\ \A q \in Procs \ {p} : /\ pc'[q] = pc[q] /\ job'[q] = job[q]
                                 /\ overtaken'[q] \/ pc[q] = "idle"
  BY <1>1 DEF IInv, Shape, ShapeOver, Broadcast, Leave, Overtake, Steps
<1>13. ShapeOver(T \cup {NoTx})'
  <2>1. ShapeOver(T \cup {NoTx})
    BY <1>1, ShapeGrows
  <2>2. NoJob \in Jobs(T \cup {NoTx})
    BY DEF NoJob, Jobs
  <2>3. job[p].kind \in Kinds \cup {"none"}
    BY <1>1 DEF ShapeOver, Jobs
  <2>4. [NoJob EXCEPT !.kind = job[p].kind] \in Jobs(T \cup {NoTx})
    BY <2>3, NewJob
  <2>5. job' \in [Procs -> Jobs(T \cup {NoTx})]
    BY <2>1, <2>2, <2>4 DEF ShapeOver, Broadcast, Leave
  <2>6. txs' \in Seq(T \cup {NoTx})
    BY <1>3
  <2> QED
    BY <2>5, <2>6 DEF ShapeOver
<1>14. Shape'
  BY <1>0, <1>2, <1>3, <1>7, <1>12, <1>13 DEF IInv, Shape, Broadcast
<1>17. DOMAIN txs \subseteq DOMAIN txs'
  BY <1>0, <1>2, <1>3
<1>15. ASSUME NEW q \in Procs \ {p} PROVE ProcInv(q)'
  BY <1>7, <1>12, <1>17, OvertakenInv DEF Broadcast
<1>18. job'[p].view = {} /\ job'[p].missed = {}
  <2>1. /\ [NoJob EXCEPT !.kind = job[p].kind].view = {} /\ NoJob.view = {}
        /\ [NoJob EXCEPT !.kind = job[p].kind].missed = {} /\ NoJob.missed = {}
    BY DEF NoJob
  <2>2. \/ job' = [job EXCEPT ![p] = [NoJob EXCEPT !.kind = job[p].kind]]
        \/ job' = [job EXCEPT ![p] = NoJob]
    BY DEF Broadcast, Leave
  <2> QED
    BY <1>1, <2>1, <2>2 DEF ShapeOver
<1>19. Lasting'
  <2> SUFFICES ASSUME NEW t \in Alive', NEW u \in DOMAIN txs', t # u, txs'[t].inputs \cap txs'[u].inputs # {}
               PROVE  u \notin Alive' /\ u < t
    BY DEF Lasting, Conflict
  <2>1. \A v \in Alive' : v = n \/ (v \in Alive /\ txs[v].inputs \cap x.inputs = {})
    <3>1. \A v \in kept : v \in Alive /\ txs[v].inputs \cap x.inputs = {}
      BY DEF WithParents
    <3>2. \A v \in blocks : v \in Alive /\ txs[v].inputs \cap x.inputs = {}
      BY DEF Broadcast, Accepts, Alive
    <3> HIDE DEF kept, x
    <3> QED
      BY <1>8, <3>1, <3>2
  <2> HIDE DEF x
  <2>2. CASE t = n
    <3>1. u \in DOMAIN txs /\ u < n
      BY <1>0, <1>2, <1>3, <2>2
    <3>2. txs'[u] = txs[u] /\ txs'[t] = x
      BY <1>3, <2>2, <3>1
    <3> QED
      BY <2>1, <2>2, <3>1, <3>2
  <2>3. CASE t # n
    <3>1. t \in Alive /\ txs[t].inputs \cap x.inputs = {} /\ txs'[t] = txs[t]
      BY <1>3, <1>4, <2>1, <2>3
    <3>2. u # n
      BY <1>3, <3>1
    <3>3. u \in DOMAIN txs /\ txs'[u] = txs[u]
      BY <1>0, <1>2, <1>3, <3>2
    <3>4. u \notin Alive /\ u < t
      BY <3>1, <3>3 DEF IInv, Lasting, Conflict
    <3> QED
      BY <2>1, <3>2, <3>4
  <2> QED
    BY <2>2, <2>3
<1>16. ProcInv(p)'
  <2>1. CASE pc'[p] = "idle"
    BY <1>18, <2>1 DEF ProcInv
  <2>2. CASE pc'[p] = "sent" /\ job'[p].kind = job[p].kind
    <3> SUFFICES ASSUME Lagging = FALSE, ~overtaken'[p], job[p].kind = "drain", backend = "esplora"
                 PROVE  Unspent(Alive)' = {}
      BY <1>18, <2>2, TransfersAssumption DEF ProcInv, Broadcast
    <3>1. ~overtaken[p]
      BY DEF IInv, Shape, Broadcast, Overtake
    <3>2. BuiltCurrent(p)
      BY <3>1 DEF IInv, ProcInv, Broadcast
    <3>3. Alive' = Alive \cup {n}
      BY <1>8, <3>1, CurrentIsAccepted, <1>7 DEF Broadcast, Alive
    <3>4. x.inputs = Unspent(Alive) /\ x.change = 0
      BY <3>2 DEF BuiltCurrent
    <3>5. {s \in Alive' : txs'[s].change > 0} = {s \in Alive : txs[s].change > 0}
      BY <1>3, <1>4, <3>3, <3>4
    <3>6. \A c \in Unspent(Alive)' : c \in Unspent(Alive) /\ c \notin x.inputs
      <4> SUFFICES ASSUME NEW c \in Unspent(Alive)'
                   PROVE  c \in Unspent(Alive) /\ c \notin x.inputs
        OBVIOUS
      <4>1. \A t \in Alive' : c \notin txs'[t].inputs
        BY DEF Unspent
      <4>2. (\A t \in Alive : c \notin txs[t].inputs) /\ c \notin x.inputs
        BY <1>3, <1>4, <3>3, <4>1
      <4>3. c \in (1 .. InitialCoins) \cup {InitialCoins + t : t \in {s \in Alive' : txs'[s].change > 0}}
        BY DEF Unspent
      <4>4. c \in (1 .. InitialCoins) \cup {InitialCoins + t : t \in {s \in Alive : txs[s].change > 0}}
        BY <3>5, <4>3
      <4> QED
        BY <4>2, <4>4 DEF Unspent
    <3> QED
      BY <3>4, <3>6
  <2>3. \/ pc'[p] = "idle"
        \/ pc'[p] = "sent" /\ job'[p].kind = job[p].kind
    <3>1. [NoJob EXCEPT !.kind = job[p].kind].kind = job[p].kind
      BY DEF NoJob
    <3> QED
      BY <1>1, <3>1 DEF IInv, Shape, ShapeOver, Broadcast, Leave
  <2> QED
    BY <2>1, <2>2, <2>3
<1> QED
  BY <1>11, <1>14, <1>15, <1>16, <1>19 DEF IInv

LEMMA NextInv ==
  ASSUME IInv, [Next]_vars PROVE IInv'
<1>1. CASE Confirm
  BY <1>1, ConfirmInv
<1>2. CASE DropFromMempool
  BY <1>2, DropInv
<1>3. ASSUME NEW p \in Procs, Step(p) PROVE IInv'
  BY <1>3, BeginInv, SyncInv, ReadBlocksInv, BuildInv, BroadcastInv, BroadcastRefusedInv, EndInv DEF Step
<1>4. CASE UNCHANGED vars
  <2>1. Alive' = Alive /\ Unspent(Alive)' = Unspent(Alive)
    BY <1>4 DEF vars, network, Alive, Unspent
  <2>2. AliveClosed'
    BY <1>4, <2>1 DEF vars, network, IInv, AliveClosed, Parents
  <2>5. Lasting'
    BY <1>4, <2>1 DEF vars, network, IInv, Lasting, Conflict
  <2>3. Shape'
    BY <1>4 DEF vars, network, IInv, Shape, ShapeOver
  <2>4. ASSUME NEW p \in Procs PROVE ProcInv(p)'
    <3>1. ViewCurrent(p)' = ViewCurrent(p) /\ BuiltCurrent(p)' = BuiltCurrent(p)
      BY <1>4, <2>1 DEF vars, network, ViewCurrent, BuiltCurrent
    <3> QED
      BY <1>4, <2>1, <3>1 DEF vars, network, IInv, ProcInv
  <2> QED
    BY <2>2, <2>3, <2>4, <2>5 DEF IInv
<1> QED
  BY <1>1, <1>2, <1>3, <1>4 DEF Next

LEMMA Invariance == Spec => []IInv
<1>1. Init => IInv
  BY InitInv
<1>2. IInv /\ [Next]_vars => IInv'
  BY NextInv
<1> QED
  BY <1>1, <1>2, PTL DEF Spec

-----------------------------------------------------------------------------
(* Induction, stated for the set of those for which a claim holds.         *)
LEMMA LeastNumber ==
  ASSUME NEW D, D \subseteq Nat, D # {}
  PROVE  \E d \in D : \A e \in D : d <= e
<1>1. PICK d \in D : \A e \in D : ~ (<<e, d>> \in OpToRel(<, Nat))
  BY NatLessThanWellFounded, WFMin
<1>2. ASSUME NEW e \in D PROVE ~ (e < d)
  <2>1. e \in Nat /\ d \in Nat
    OBVIOUS
  <2>2. <<e, d>> \notin {ss \in Nat \X Nat : ss[1] < ss[2]}
    BY <1>1 DEF OpToRel
  <2> QED
    BY <2>1, <2>2
<1>3. \A e \in D : d <= e
  BY <1>2
<1> QED
  BY <1>3

LEMMA NumbersByInduction ==
  ASSUME NEW G, 0 \in G, \A n \in Nat : n \in G => n + 1 \in G
  PROVE  Nat \subseteq G
<1> SUFFICES ASSUME Nat \ G # {} PROVE FALSE
  OBVIOUS
<1>1. PICK d \in Nat \ G : \A e \in Nat \ G : d <= e
  BY LeastNumber
<1>2. d - 1 \in Nat /\ d - 1 \notin Nat \ G
  BY <1>1
<1>3. (d - 1) + 1 \in G
  BY <1>2
<1> QED
  BY <1>1, <1>3

(* A set that holds a part of S when it holds what is left of that part    *)
(* without one element, whichever, holds S.                                *)
LEMMA SetsByInduction ==
  ASSUME NEW S, IsFiniteSet(S), NEW G,
         \A T \in SUBSET S : (\A x \in T : T \ {x} \in G) => T \in G
  PROVE  S \in G
<1> DEFINE N == {n \in Nat : \A T \in SUBSET S : Cardinality(T) = n => T \in G}
<1>1. 0 \in N
  BY FS_EmptySet, FS_Subset
<1>2. ASSUME NEW n \in Nat, n \in N PROVE n + 1 \in N
  <2> SUFFICES ASSUME NEW T \in SUBSET S, Cardinality(T) = n + 1 PROVE T \in G
    OBVIOUS
  <2>1. IsFiniteSet(T)
    BY FS_Subset
  <2>2. ASSUME NEW x \in T PROVE Cardinality(T \ {x}) = n
    <3>1. Cardinality(T \ {x}) = Cardinality(T) - 1
      BY <2>1, FS_RemoveElement
    <3> QED
      BY <3>1
  <2> QED
    BY <1>2, <2>2
<1>3. Nat \subseteq N
  <2> HIDE DEF N
  <2> QED
    BY <1>1, <1>2, NumbersByInduction
<1>4. Cardinality(S) \in N
  BY <1>3, FS_CardinalityType
<1> QED
  BY <1>4

-----------------------------------------------------------------------------
(* The sum of a function over a finite set, as Functions defines it: SumsOver *)
(* is the recursion, for the sets P, that takes the elements off one by one.  *)
First(s) == CHOOSE x \in s : TRUE
SumsOver(v, P, f) ==
  f = [s \in P |-> IF s = {} THEN 0 ELSE v[First(s)] + f[s \ {First(s)}]]

LEMMA SumIsFold ==
  ASSUME NEW v, NEW S
  PROVE  SumFunctionOnSet(v, S) = (CHOOSE f : SumsOver(v, SUBSET S, f))[S]
BY DEF SumFunctionOnSet, FoldFunctionOnSet, MapThenFoldSet, SumsOver, First

LEMMA FirstIsMember ==
  ASSUME NEW s, s # {} PROVE First(s) \in s
BY DEF First

(* The recursion is well founded: *)
LEMMA SumExists ==
  ASSUME NEW v, NEW S, IsFiniteSet(S)
  PROVE  \E f : SumsOver(v, SUBSET S, f)
<1> DEFINE Upto(n) == {s \in SUBSET S : Cardinality(s) <= n}
           N == {n \in Nat : \E f : SumsOver(v, Upto(n), f)}
<1>0. \A s \in SUBSET S : IsFiniteSet(s) /\ Cardinality(s) \in Nat /\ Cardinality(s) <= Cardinality(S)
  BY FS_Subset, FS_CardinalityType
<1>1. 0 \in N
  <2> DEFINE f == [s \in Upto(0) |-> 0]
  <2>1. \A s \in Upto(0) : s = {}
    BY <1>0, FS_EmptySet
  <2>2. SumsOver(v, Upto(0), f)
    <3> HIDE DEF Upto
    <3> QED
      BY <2>1 DEF SumsOver
  <2> QED
    BY <2>2
<1>2. ASSUME NEW n \in Nat, n \in N PROVE n + 1 \in N
  <2>1. PICK f : SumsOver(v, Upto(n), f)
    BY <1>2
  <2> DEFINE g == [s \in Upto(n + 1) |-> IF s = {} THEN 0 ELSE v[First(s)] + f[s \ {First(s)}]]
  <2>2. ASSUME NEW s \in Upto(n + 1), s # {} PROVE s \ {First(s)} \in Upto(n)
    <3>1. First(s) \in s /\ IsFiniteSet(s)
      BY <1>0, <2>2, FirstIsMember
    <3>2. Cardinality(s \ {First(s)}) = Cardinality(s) - 1
      BY <3>1, FS_RemoveElement
    <3>3. Cardinality(s) \in Nat /\ Cardinality(s) <= n + 1
      BY <1>0
    <3> QED
      BY <3>2, <3>3
  <2>3. \A s \in Upto(n) : s \in Upto(n + 1)
    BY <1>0
  <2> HIDE DEF Upto
  <2>4. \A s \in Upto(n) : g[s] = f[s]
    BY <2>1, <2>3 DEF SumsOver
  <2>5. \A s \in Upto(n + 1) : s # {} => f[s \ {First(s)}] = g[s \ {First(s)}]
    BY <2>2, <2>4
  <2>6. g = [s \in Upto(n + 1) |-> IF s = {} THEN 0 ELSE v[First(s)] + g[s \ {First(s)}]]
    <3> DEFINE h == [s \in Upto(n + 1) |-> IF s = {} THEN 0 ELSE v[First(s)] + g[s \ {First(s)}]]
    <3>1. \A s \in Upto(n + 1) : g[s] = h[s]
      BY <2>5
    <3> QED
      BY <3>1
  <2>7. SumsOver(v, Upto(n + 1), g)
    BY <2>6 DEF SumsOver
  <2> QED
    BY <2>7
<1>3. Nat \subseteq N
  <2> HIDE DEF N
  <2> QED
    BY <1>1, <1>2, NumbersByInduction
<1>4. Cardinality(S) \in N
  BY <1>3, FS_CardinalityType
<1>5. Upto(Cardinality(S)) = SUBSET S
  BY <1>0
<1> QED
  BY <1>4, <1>5

(* there is one such function, whatever the sets it is defined for. *)
LEMMA SumUnique ==
  ASSUME NEW v, NEW S, NEW R, NEW h, NEW k, R \subseteq S, IsFiniteSet(R),
         SumsOver(v, SUBSET S, h), SumsOver(v, SUBSET R, k)
  PROVE  h[R] = k[R]
<1> DEFINE G == {s \in SUBSET R : h[s] = k[s]}
<1>1. ASSUME NEW T \in SUBSET R, \A x \in T : T \ {x} \in G PROVE T \in G
  <2>1. h[T] = IF T = {} THEN 0 ELSE v[First(T)] + h[T \ {First(T)}]
    BY DEF SumsOver
  <2>2. k[T] = IF T = {} THEN 0 ELSE v[First(T)] + k[T \ {First(T)}]
    BY DEF SumsOver
  <2>3. T # {} => h[T \ {First(T)}] = k[T \ {First(T)}]
    BY <1>1, FirstIsMember
  <2> QED
    BY <2>1, <2>2, <2>3
<1>2. R \in G
  <2> HIDE DEF G
  <2> QED
    BY <1>1, SetsByInduction
<1> QED
  BY <1>2

(* A sum, by the element its definition takes first, *)
LEMMA SumByFirst ==
  ASSUME NEW v, NEW S, IsFiniteSet(S)
  PROVE  SumFunctionOnSet(v, S) =
           IF S = {} THEN 0 ELSE v[First(S)] + SumFunctionOnSet(v, S \ {First(S)})
<1> DEFINE f == CHOOSE h : SumsOver(v, SUBSET S, h)
           R == S \ {First(S)}
           g == CHOOSE h : SumsOver(v, SUBSET R, h)
<1>1. SumsOver(v, SUBSET S, f)
  BY SumExists
<1>2. IsFiniteSet(R) /\ R \in SUBSET S
  BY FS_RemoveElement
<1>3. SumsOver(v, SUBSET R, g)
  BY <1>2, SumExists
<1>4. f[R] = g[R]
  <2> HIDE DEF f, g, R
  <2> QED
    BY <1>1, <1>2, <1>3, SumUnique
<1>5. f[S] = IF S = {} THEN 0 ELSE v[First(S)] + f[R]
  <2> HIDE DEF f
  <2> QED
    BY <1>1 DEF SumsOver
<1>6. SumFunctionOnSet(v, S) = f[S] /\ SumFunctionOnSet(v, R) = g[R]
  BY SumIsFold
<1> QED
  BY <1>4, <1>5, <1>6

(* it is a number, *)
LEMMA SumIsNatural ==
  ASSUME NEW v, NEW S, IsFiniteSet(S), \A x \in S : v[x] \in Nat
  PROVE  SumFunctionOnSet(v, S) \in Nat
<1> DEFINE W(T) == SumFunctionOnSet(v, T)
           G == {T \in SUBSET S : W(T) \in Nat}
<1>1. ASSUME NEW T \in SUBSET S, \A x \in T : T \ {x} \in G PROVE T \in G
  <2>1. W(T) = IF T = {} THEN 0 ELSE v[First(T)] + W(T \ {First(T)})
    BY FS_Subset, SumByFirst
  <2>2. T # {} => v[First(T)] \in Nat /\ W(T \ {First(T)}) \in Nat
    BY <1>1, FirstIsMember
  <2> HIDE DEF W
  <2> QED
    BY <2>1, <2>2
<1>2. S \in G
  <2> HIDE DEF G
  <2> QED
    BY <1>1, SetsByInduction
<1> QED
  BY <1>2

(* and any of its elements may be taken first. *)
LEMMA SumByElement ==
  ASSUME NEW v, NEW S, IsFiniteSet(S), \A x \in S : v[x] \in Nat
  PROVE  \A x \in S : SumFunctionOnSet(v, S) = v[x] + SumFunctionOnSet(v, S \ {x})
<1> DEFINE W(T) == SumFunctionOnSet(v, T)
           G == {T \in SUBSET S : \A x \in T : W(T) = v[x] + W(T \ {x})}
<1>1. ASSUME NEW T \in SUBSET S, \A x \in T : T \ {x} \in G PROVE T \in G
  <2> DEFINE c == First(T)
  <2> SUFFICES ASSUME NEW x \in T PROVE W(T) = v[x] + W(T \ {x})
    OBVIOUS
  <2>1. c \in T /\ W(T) = v[c] + W(T \ {c})
    BY FS_Subset, SumByFirst, FirstIsMember
  <2>2. \A t \in T : v[t] \in Nat
    OBVIOUS
  <2>3. \A R \in SUBSET S : W(R) \in Nat
    BY FS_Subset, SumIsNatural
  <2> HIDE DEF W, c
  <2>4. CASE x = c
    BY <2>1, <2>4
  <2>5. CASE x # c
    <3>1. W(T \ {c}) = v[x] + W((T \ {c}) \ {x})
      BY <1>1, <2>1, <2>5
    <3>2. W(T \ {x}) = v[c] + W((T \ {x}) \ {c})
      BY <1>1, <2>1, <2>5
    <3>3. (T \ {c}) \ {x} = (T \ {x}) \ {c}
      OBVIOUS
    <3> DEFINE R == (T \ {x}) \ {c}
    <3>4. W((T \ {c}) \ {x}) = W(R)
      BY <3>3
    <3>5. W(R) \in Nat /\ v[c] \in Nat /\ v[x] \in Nat
      BY <2>1, <2>2, <2>3
    <3> QED
      BY <2>1, <3>1, <3>2, <3>4, <3>5
  <2> QED
    BY <2>4, <2>5
<1>2. S \in G
  <2> HIDE DEF G
  <2> QED
    BY <1>1, SetsByInduction
<1> QED
  BY <1>2

(* Functions that agree on a set have the same sum. *)
LEMMA SumAgrees ==
  ASSUME NEW v, NEW w, NEW S, IsFiniteSet(S), \A x \in S : v[x] = w[x]
  PROVE  SumFunctionOnSet(v, S) = SumFunctionOnSet(w, S)
<1> DEFINE G == {T \in SUBSET S : SumFunctionOnSet(v, T) = SumFunctionOnSet(w, T)}
<1>1. ASSUME NEW T \in SUBSET S, \A x \in T : T \ {x} \in G PROVE T \in G
  <2> DEFINE c == First(T)
             V(R) == SumFunctionOnSet(v, R)
             W(R) == SumFunctionOnSet(w, R)
  <2>1. V(T) = IF T = {} THEN 0 ELSE v[c] + V(T \ {c})
    BY FS_Subset, SumByFirst
  <2>2. W(T) = IF T = {} THEN 0 ELSE w[c] + W(T \ {c})
    BY FS_Subset, SumByFirst
  <2>3. T # {} => v[c] = w[c] /\ V(T \ {c}) = W(T \ {c})
    BY <1>1, FirstIsMember
  <2>4. V(T) = W(T)
    <3> HIDE DEF V, W, c
    <3> QED
      BY <2>1, <2>2, <2>3
  <2> QED
    BY <2>4
<1>2. S \in G
  <2> HIDE DEF G
  <2> QED
    BY <1>1, SetsByInduction
<1> QED
  BY <1>2

(* A sum over a set is that over a part of it and that over the rest. *)
LEMMA SumByParts ==
  ASSUME NEW v, NEW S, NEW R, IsFiniteSet(S), R \subseteq S, \A x \in S : v[x] \in Nat
  PROVE  SumFunctionOnSet(v, R) + SumFunctionOnSet(v, S \ R) = SumFunctionOnSet(v, S)
<1> DEFINE W(T) == SumFunctionOnSet(v, T)
           G == {T \in SUBSET R : W(S \ (R \ T)) = W(S \ R) + W(T)}
<1>0. IsFiniteSet(R) /\ \A T \in SUBSET S : IsFiniteSet(T) /\ W(T) \in Nat
  BY FS_Subset, SumIsNatural
<1>1. ASSUME NEW T \in SUBSET R, \A x \in T : T \ {x} \in G PROVE T \in G
  <2> SUFFICES W(S \ (R \ T)) = W(S \ R) + W(T)
    OBVIOUS
  <2>1. CASE T = {}
    <3>1. W(T) = 0
      BY <2>1, FS_EmptySet, SumByFirst
    <3>2. S \ (R \ T) = S \ R
      BY <2>1
    <3>3. W(S \ (R \ T)) = W(S \ R) /\ W(S \ R) \in Nat
      BY <1>0, <3>2
    <3> HIDE DEF W
    <3> QED
      BY <3>1, <3>3
  <2>2. CASE T # {}
    <3>1. PICK x \in T : TRUE
      BY <2>2
    <3>2. W(T) = v[x] + W(T \ {x})
      BY <1>0, SumByElement
    <3>3. x \in S \ (R \ T) /\ IsFiniteSet(S \ (R \ T)) /\ \A y \in S \ (R \ T) : v[y] \in Nat
      BY <1>0
    <3>4. W(S \ (R \ T)) = v[x] + W((S \ (R \ T)) \ {x})
      BY <3>3, SumByElement
    <3>5. (S \ (R \ T)) \ {x} = S \ (R \ (T \ {x}))
      BY <3>1
    <3>6. W((S \ (R \ T)) \ {x}) = W(S \ (R \ (T \ {x})))
      BY <3>5
    <3>7. W(S \ (R \ (T \ {x}))) = W(S \ R) + W(T \ {x})
      BY <1>1, <3>1
    <3>8. v[x] \in Nat /\ W(S \ R) \in Nat /\ W(T \ {x}) \in Nat
      BY <1>0
    <3> HIDE DEF W
    <3> QED
      BY <3>2, <3>4, <3>6, <3>7, <3>8
  <2> QED
    BY <2>1, <2>2
<1>2. R \in G
  <2> HIDE DEF G
  <2> QED
    BY <1>0, <1>1, SetsByInduction
<1>3. S \ (R \ R) = S
  OBVIOUS
<1>4. W(S) = W(S \ R) + W(R) /\ W(S \ R) \in Nat /\ W(R) \in Nat
  BY <1>0, <1>2, <1>3
<1> QED
  BY <1>4

(* The sum of a constant. *)
LEMMA SumOfConstant ==
  ASSUME NEW v, NEW S, IsFiniteSet(S), NEW k \in Nat, \A x \in S : v[x] = k
  PROVE  SumFunctionOnSet(v, S) = Cardinality(S) * k
<1> DEFINE W(T) == SumFunctionOnSet(v, T)
           G == {T \in SUBSET S : W(T) = Cardinality(T) * k}
<1>1. ASSUME NEW T \in SUBSET S, \A x \in T : T \ {x} \in G PROVE T \in G
  <2> DEFINE c == First(T)
  <2>0. IsFiniteSet(T) /\ W(T) = IF T = {} THEN 0 ELSE v[c] + W(T \ {c})
    BY FS_Subset, SumByFirst
  <2> HIDE DEF W
  <2>1. CASE T = {}
    BY <2>0, <2>1, FS_EmptySet
  <2>2. CASE T # {}
    <3>1. c \in T
      BY <2>2, FirstIsMember
    <3>2. v[c] = k /\ W(T \ {c}) = Cardinality(T \ {c}) * k
      BY <1>1, <3>1
    <3>3. Cardinality(T \ {c}) = Cardinality(T) - 1 /\ Cardinality(T) \in Nat
      BY <2>0, <3>1, FS_RemoveElement, FS_CardinalityType
    <3>4. PICK n \in Nat : n = Cardinality(T)
      BY <3>3
    <3>5. W(T) = k + (n - 1) * k
      BY <2>0, <2>2, <3>2, <3>3, <3>4
    <3>6. k + (n - 1) * k = n * k
      OBVIOUS
    <3> QED
      BY <3>4, <3>5, <3>6
  <2> QED
    BY <2>1, <2>2
<1>2. S \in G
  <2> HIDE DEF G
  <2> QED
    BY <1>1, SetsByInduction
<1> QED
  BY <1>2

-----------------------------------------------------------------------------
(* Money.                                                                  *)

\* A transaction, the n-th, that spends coins there were before it, all they are worth.
Funded(x, n) ==
  /\ x.inputs \subseteq 1 .. InitialCoins + n - 1
  /\ \A c \in x.inputs : c > InitialCoins => txs[c - InitialCoins].change > 0
  /\ x.amount \in Nat /\ x.fee \in Nat /\ x.change \in Nat /\ x.rate \in Nat
  /\ Worth(x.inputs) = x.amount + x.fee + x.change

\* Transactions of a view: they spend no coin twice.
Sound(V) ==
  /\ V \subseteq DOMAIN txs
  /\ \A t \in V, u \in V : ~Conflict(t, u)

\* Transactions that stand together: they build on none but each other as well.
Standing(V) == Sound(V) /\ Whole(V)

MoneyInv ==
  /\ txs \in Seq(Txs)
  /\ \A t \in DOMAIN txs : Funded(txs[t], t)
  /\ Sound(stored)
  /\ \A p \in Procs : Sound(job[p].view)
  /\ \A p \in Procs : pc[p] = "built" => Funded(job[p].tx, Len(txs) + 1)

LEMMA ConstantTypes ==
  /\ InitialCoins \in Nat /\ CoinValue \in Nat /\ Dust \in Nat /\ MaxTxs \in Nat /\ MaxDrops \in Nat
  /\ Amounts \subseteq Nat /\ ConfiguredCaps \subseteq Nat
  /\ InitialCoins * CoinValue \in Nat
BY TransfersAssumption

LEMMA TransactionTypes ==
  ASSUME txs \in Seq(Txs)
  PROVE  /\ Len(txs) \in Nat /\ DOMAIN txs = 1 .. Len(txs)
         /\ \A t \in DOMAIN txs : /\ txs[t].amount \in Nat /\ txs[t].fee \in Nat
                                  /\ txs[t].change \in Nat
<1>1. \A t \in DOMAIN txs : txs[t] \in Txs
  OBVIOUS
<1>2. Wealth \subseteq Nat
  BY ConstantTypes DEF Wealth
<1>3. \A x \in Txs : x.amount \in Nat /\ x.fee \in Nat /\ x.change \in Nat
  BY <1>2 DEF Txs
<1> QED
  BY <1>1, <1>3

(* What a coin is worth is a number, and so is what coins are worth.       *)
LEMMA CoinsAreWorth ==
  ASSUME txs \in Seq(Txs), NEW S, S \subseteq 1 .. InitialCoins + Len(txs)
  PROVE  /\ IsFiniteSet(S) /\ \A c \in S : Value[c] \in Nat
         /\ Worth(S) \in Nat
         /\ \A c \in S : Worth(S) = Value[c] + Worth(S \ {c})
         /\ \A R \in SUBSET S : Worth(S) = Worth(R) + Worth(S \ R) /\ Worth(R) \in Nat
<1>1. Len(txs) \in Nat /\ DOMAIN txs = 1 .. Len(txs) /\ \A t \in DOMAIN txs : txs[t].change \in Nat
  BY TransactionTypes
<1>2. IsFiniteSet(1 .. InitialCoins + Len(txs))
  BY <1>1, ConstantTypes, FS_Interval
<1>3. IsFiniteSet(S)
  BY <1>2, FS_Subset
<1>4. \A c \in 1 .. InitialCoins + Len(txs) : Value[c] \in Nat
  <2> SUFFICES ASSUME NEW c \in 1 .. InitialCoins + Len(txs) PROVE Value[c] \in Nat
    OBVIOUS
  <2>1. CASE c <= InitialCoins
    BY <2>1, ConstantTypes DEF Value
  <2>2. CASE ~(c <= InitialCoins)
    <3>1. c - InitialCoins \in DOMAIN txs
      BY <1>1, <2>2, ConstantTypes
    <3> QED
      BY <1>1, <2>2, <3>1 DEF Value
  <2> QED
    BY <2>1, <2>2
<1>5. \A c \in S : Value[c] \in Nat
  BY <1>4
<1>6. \A R \in SUBSET S : IsFiniteSet(R) /\ \A c \in R : Value[c] \in Nat
  BY <1>3, <1>5, FS_Subset
<1>7. \A R \in SUBSET S : Worth(R) \in Nat
  BY <1>6, SumIsNatural DEF Worth
<1>8. \A c \in S : Worth(S) = Value[c] + Worth(S \ {c})
  BY <1>3, <1>5, SumByElement DEF Worth
<1>9. ASSUME NEW R \in SUBSET S PROVE Worth(S) = Worth(R) + Worth(S \ R)
  <2>1. R \subseteq S
    OBVIOUS
  <2> DEFINE rest == SumFunctionOnSet(Value, S \ R)
  <2>2. SumFunctionOnSet(Value, R) + rest = SumFunctionOnSet(Value, S)
    BY <1>3, <1>5, <2>1, SumByParts
  <2> QED
    BY <2>2 DEF Worth
<1>10. Worth(S) \in Nat
  BY <1>7
<1> QED
  BY <1>3, <1>5, <1>7, <1>8, <1>9, <1>10, Zenon

(* What transactions paid is a number as well.                             *)
LEMMA PaidByElement ==
  ASSUME txs \in Seq(Txs), NEW V, V \subseteq DOMAIN txs
  PROVE  /\ Paid(V) \in Nat
         /\ \A t \in V : Paid(V) = (txs[t].amount + txs[t].fee) + Paid(V \ {t})
<1> DEFINE paid == [t \in DOMAIN txs |-> txs[t].amount + txs[t].fee]
<1>1. Len(txs) \in Nat /\ DOMAIN txs = 1 .. Len(txs)
  OBVIOUS
<1>2. IsFiniteSet(DOMAIN txs)
  BY <1>1, FS_Interval
<1>3. IsFiniteSet(V)
  BY <1>2, FS_Subset
<1>4. \A t \in V : paid[t] = txs[t].amount + txs[t].fee /\ paid[t] \in Nat
  BY TransactionTypes
<1> HIDE DEF paid
<1>5. SumFunctionOnSet(paid, V) \in Nat
  BY <1>3, <1>4, SumIsNatural
<1>6. \A t \in V : SumFunctionOnSet(paid, V) = paid[t] + SumFunctionOnSet(paid, V \ {t})
  BY <1>3, <1>4, SumByElement
<1>7. \A R : Paid(R) = SumFunctionOnSet(paid, R)
  BY DEF Paid, paid
<1> QED
  BY <1>4, <1>5, <1>6, <1>7

(* Unspent coins are coins.                                                *)
LEMMA UnspentCoins ==
  ASSUME txs \in Seq(Txs), NEW n \in 0 .. Len(txs), NEW V, V \subseteq 1 .. n
  PROVE  Unspent(V) \subseteq 1 .. InitialCoins + n
<1>0. Len(txs) \in Nat
  BY TransactionTypes
<1>1. n \in Nat
  BY <1>0
<1>2. \A t \in 1 .. n : InitialCoins + t \in 1 .. InitialCoins + n
  BY <1>1, ConstantTypes
<1>3. 1 .. InitialCoins \subseteq 1 .. InitialCoins + n
  BY <1>1, ConstantTypes
<1>4. \A c \in Unspent(V) : c \in 1 .. InitialCoins \/ \E t \in V : c = InitialCoins + t
  BY DEF Unspent
<1> QED
  BY <1>2, <1>3, <1>4

(* The last of transactions that stand together spends coins that the      *)
(* others leave, and adds its change to them.                              *)
LEMMA LastSpends ==
  ASSUME txs \in Seq(Txs), \A t \in DOMAIN txs : Funded(txs[t], t),
         NEW n \in Nat, NEW V, V \subseteq 1 .. n + 1, n + 1 \in V, Standing(V)
  PROVE  /\ Standing(V \ {n + 1}) /\ V \ {n + 1} \subseteq 1 .. n
         /\ txs[n + 1].inputs \subseteq Unspent(V \ {n + 1})
         /\ Unspent(V) = (Unspent(V \ {n + 1}) \ txs[n + 1].inputs)
                           \cup {c \in {InitialCoins + n + 1} : txs[n + 1].change > 0}
<1> DEFINE k == n + 1
           U == V \ {k}
           Kept(S) == {s \in S : txs[s].change > 0}
<1>1. DOMAIN txs = 1 .. Len(txs) /\ Len(txs) \in Nat /\ k \in DOMAIN txs /\ V \subseteq DOMAIN txs
  BY DEF Standing, Sound, Whole
<1>2. \A t \in V : /\ t \in 1 .. k /\ txs[t].inputs \subseteq 1 .. InitialCoins + t - 1
                   /\ \A c \in txs[t].inputs : c > InitialCoins => txs[c - InitialCoins].change > 0
  BY <1>1 DEF Funded
<1>3. U \subseteq 1 .. n
  OBVIOUS
<1>4. \A t \in V : \A u \in Parents(t) : u < t
  BY <1>2, ConstantTypes DEF Parents
<1>5. Standing(U)
  <2>1. \A t \in U : Parents(t) \subseteq U
    BY <1>3, <1>4 DEF Standing, Sound, Whole
  <2> QED
    BY <2>1 DEF Standing, Sound, Whole
<1>6. \A t \in V : InitialCoins + k \notin txs[t].inputs
  BY <1>2, ConstantTypes
<1>7. txs[k].inputs \subseteq Unspent(U)
  <2> SUFFICES ASSUME NEW c \in txs[k].inputs PROVE c \in Unspent(U)
    OBVIOUS
  <2>1. \A t \in U : c \notin txs[t].inputs
    BY DEF Standing, Sound, Conflict
  <2>2. c \in 1 .. InitialCoins + n
    BY <1>2, ConstantTypes
  <2>3. CASE c > InitialCoins
    <3>1. c - InitialCoins \in Parents(k)
      BY <2>3 DEF Parents
    <3>2. c - InitialCoins \in U
      BY <1>4, <3>1 DEF Standing, Sound, Whole
    <3>3. txs[c - InitialCoins].change > 0
      BY <1>2, <2>3
    <3>4. c - InitialCoins \in Kept(U) /\ c = InitialCoins + (c - InitialCoins)
      BY <2>2, <3>2, <3>3, ConstantTypes
    <3> HIDE DEF U
    <3> QED
      BY <2>1, <3>4 DEF Unspent
  <2>4. CASE ~(c > InitialCoins)
    <3>1. c \in 1 .. InitialCoins
      BY <2>2, <2>4, ConstantTypes
    <3> QED
      BY <2>1, <3>1 DEF Unspent
  <2> QED
    BY <2>3, <2>4
<1>8. Unspent(V) = (Unspent(U) \ txs[k].inputs) \cup {c \in {InitialCoins + k} : txs[k].change > 0}
  <2>0. V = U \cup {k}
    OBVIOUS
  <2>1. Kept(V) = Kept(U) \cup {t \in {k} : txs[k].change > 0}
    OBVIOUS
  <2>2. \A c : c \in UNION {txs[t].inputs : t \in V} <=>
               c \in UNION {txs[t].inputs : t \in U} \/ c \in txs[k].inputs
    <3> HIDE DEF U, k
    <3> QED
      BY <2>0
  <2>3. InitialCoins + k \notin UNION {txs[t].inputs : t \in V}
    BY <1>6
  <2> DEFINE last == {c \in {InitialCoins + k} : txs[k].change > 0}
  <2>4. {InitialCoins + t : t \in Kept(V)} = {InitialCoins + t : t \in Kept(U)} \cup last
    <3> HIDE DEF U, k
    <3> QED
      BY <2>1
  <2>5. \A S, c : c \in Unspent(S) <=>
               /\ c \in 1 .. InitialCoins \/ c \in {InitialCoins + t : t \in Kept(S)}
               /\ c \notin UNION {txs[t].inputs : t \in S}
    BY DEF Unspent
  <2>6. \A c \in last : c \notin UNION {txs[t].inputs : t \in V}
    BY <2>3
  <2> HIDE DEF U, k, Kept, last
  <2>7. \A c : c \in Unspent(V) <=> (c \in Unspent(U) /\ c \notin txs[k].inputs) \/ c \in last
    BY <2>2, <2>4, <2>5, <2>6
  <2> QED
    BY <2>7 DEF last
<1>9. InitialCoins + k = InitialCoins + n + 1
  BY ConstantTypes
<1> QED
  BY <1>3, <1>5, <1>7, <1>8, <1>9

(* Transactions that stand together keep the money together.               *)
LEMMA Conservation ==
  ASSUME txs \in Seq(Txs), \A t \in DOMAIN txs : Funded(txs[t], t), NEW V, Standing(V)
  PROVE  /\ Worth(Unspent(V)) + Paid(V) = InitialCoins * CoinValue
         /\ Worth(Unspent(V)) \in Wealth
<1> DEFINE AddsUp(S) == Worth(Unspent(S)) + Paid(S) = InitialCoins * CoinValue
           G == {n \in Nat : \A S : S \subseteq 1 .. n /\ Standing(S) => AddsUp(S)}
<1>0. Len(txs) \in Nat /\ DOMAIN txs = 1 .. Len(txs)
  BY TransactionTypes
<1>1. 0 \in G
  <2> SUFFICES AddsUp({})
    <3>1. \A S : S \subseteq 1 .. 0 => S = {}
      OBVIOUS
    <3> HIDE DEF AddsUp
    <3> QED
      BY <3>1
  <2>1. Unspent({}) = 1 .. InitialCoins
    BY DEF Unspent
  <2>2. IsFiniteSet(1 .. InitialCoins) /\ Cardinality(1 .. InitialCoins) = InitialCoins
    BY ConstantTypes, FS_Interval
  <2>3. \A c \in 1 .. InitialCoins : Value[c] = CoinValue
    BY <1>0, ConstantTypes DEF Value
  <2>4. Worth(1 .. InitialCoins) = InitialCoins * CoinValue
    BY <2>2, <2>3, ConstantTypes, SumOfConstant DEF Worth
  <2>5. Paid({}) = 0
    BY FS_EmptySet, SumByFirst DEF Paid
  <2> QED
    BY <2>1, <2>4, <2>5, ConstantTypes
<1>2. ASSUME NEW n \in Nat, n \in G PROVE n + 1 \in G
  <2> SUFFICES ASSUME NEW S, S \subseteq 1 .. n + 1, Standing(S) PROVE AddsUp(S)
    OBVIOUS
  <2>1. CASE n + 1 \notin S
    <3>1. S \subseteq 1 .. n
      BY <2>1
    <3> QED
      BY <1>2, <3>1
  <2>2. CASE n + 1 \in S
    <3> DEFINE k == n + 1
               U == S \ {k}
               x == txs[k]
               last == {c \in {InitialCoins + k} : x.change > 0}
    <3>1. /\ Standing(U) /\ U \subseteq 1 .. n /\ x.inputs \subseteq Unspent(U)
          /\ Unspent(S) = (Unspent(U) \ x.inputs) \cup last
      <4>1. InitialCoins + n + 1 = InitialCoins + k
        BY ConstantTypes
      <4> QED
        BY <2>2, <4>1, LastSpends
    <3>2. k \in DOMAIN txs /\ n < Len(txs) /\ S \subseteq DOMAIN txs
      BY <1>0, <2>2 DEF Standing, Sound, Whole
    <3>3. /\ x.amount \in Nat /\ x.fee \in Nat /\ x.change \in Nat
          /\ Worth(x.inputs) = x.amount + x.fee + x.change
      BY <3>2 DEF Funded
    <3>4. Unspent(U) \subseteq 1 .. InitialCoins + n
      BY <1>0, <3>1, <3>2, UnspentCoins
    <3>5. Unspent(U) \subseteq 1 .. InitialCoins + Len(txs)
      <4>1. 1 .. InitialCoins + n \subseteq 1 .. InitialCoins + Len(txs)
        BY <1>0, <3>2, ConstantTypes
      <4> HIDE DEF U
      <4> QED
        BY <3>4, <4>1
    <3>6. /\ Worth(Unspent(U)) = Worth(x.inputs) + Worth(Unspent(U) \ x.inputs)
          /\ Worth(Unspent(U)) \in Nat /\ Worth(Unspent(U) \ x.inputs) \in Nat
      BY <3>1, <3>5, CoinsAreWorth
    <3>7. Worth(Unspent(S)) = x.change + Worth(Unspent(U) \ x.inputs)
      <4>1. CASE x.change > 0
        <5> DEFINE c == InitialCoins + k
        <5>1. c \in 1 .. InitialCoins + Len(txs) /\ ~(c <= InitialCoins) /\ c - InitialCoins = k
          BY <1>0, <3>2, ConstantTypes
        <5>2. Value[c] = x.change
          BY <5>1 DEF Value
        <5>3. last = {c}
          BY <4>1
        <5>0. c \notin 1 .. InitialCoins + n
          BY ConstantTypes
        <5>4. c \in Unspent(S) /\ c \notin Unspent(U)
          <6> HIDE DEF U, c, x, last
          <6> QED
            BY <3>1, <3>4, <5>0, <5>3
        <5>5. Unspent(S) \subseteq 1 .. InitialCoins + Len(txs)
          BY <3>1, <3>5, <5>1, <5>3
        <5>6. Worth(Unspent(S)) = Value[c] + Worth(Unspent(S) \ {c})
          BY <5>4, <5>5, CoinsAreWorth
        <5>7. Unspent(S) \ {c} = Unspent(U) \ x.inputs
          <6> HIDE DEF U, c, x
          <6> QED
            BY <3>1, <5>3, <5>4
        <5> QED
          BY <5>2, <5>6, <5>7
      <4>2. CASE ~(x.change > 0)
        <5>1. last = {}
          BY <4>2
        <5>2. Unspent(S) = Unspent(U) \ x.inputs
          <6> HIDE DEF U, x, last
          <6> QED
            BY <3>1, <5>1
        <5>3. x.change = 0
          BY <3>3, <4>2
        <5>4. Worth(Unspent(S)) = Worth(Unspent(U) \ x.inputs)
          BY <5>2
        <5> QED
          BY <3>6, <5>3, <5>4
      <4> QED
        BY <4>1, <4>2
    <3>8. Paid(S) = (x.amount + x.fee) + Paid(U) /\ Paid(U) \in Nat
      BY <2>2, <3>2, PaidByElement
    <3>9. AddsUp(U)
      BY <1>2, <3>1
    <3> HIDE DEF U, x, last, k
    <3> QED
      BY <3>3, <3>6, <3>7, <3>8, <3>9
  <2> QED
    BY <2>1, <2>2
<1>3. Nat \subseteq G
  <2> HIDE DEF G
  <2> QED
    BY <1>1, <1>2, NumbersByInduction
<1>4. V \subseteq 1 .. Len(txs)
  BY <1>0 DEF Standing, Sound, Whole
<1>5. AddsUp(V)
  BY <1>0, <1>3, <1>4
<1>6. Worth(Unspent(V)) \in Nat /\ Paid(V) \in Nat
  <2>1. Unspent(V) \subseteq 1 .. InitialCoins + Len(txs)
    <3>1. Len(txs) \in 0 .. Len(txs)
      BY <1>0
    <3> QED
      BY <1>4, <3>1, UnspentCoins
  <2> QED
    BY <1>0, <1>4, <2>1, CoinsAreWorth, PaidByElement
<1>7. Worth(Unspent(V)) <= InitialCoins * CoinValue
  BY <1>5, <1>6, ConstantTypes
<1> QED
  BY <1>5, <1>6, <1>7, ConstantTypes DEF Wealth

(* A command builds a transaction from coins that are there, all they are  *)
(* worth, and pays nothing the wallet did not have.                        *)
LEMMA PaymentAddsUp ==
  ASSUME NEW amount \in Nat, NEW rate \in Nat, NEW S, IsFiniteSet(S),
         Worth(S) \in Nat, Affordable(amount, rate, S), NEW x, x = Payment(amount, rate, S)
  PROVE  /\ x.inputs = S /\ x.rate = rate
         /\ x.amount \in Nat /\ x.fee \in Nat /\ x.change \in Nat
         /\ Worth(S) = x.amount + x.fee + x.change
<1> DEFINE fee == rate * Cardinality(S)
           rest == Worth(S) - amount - fee
           change == IF rest >= Dust THEN rest ELSE 0
<1>1. Cardinality(S) \in Nat
  BY FS_CardinalityType
<1>2. fee \in Nat
  <2>1. \A a \in Nat, b \in Nat : a * b \in Nat
    OBVIOUS
  <2> QED
    BY <1>1, <2>1
<1>3. x = [inputs |-> S, amount |-> amount, rate |-> rate,
           fee |-> fee + (rest - change), change |-> change]
  BY DEF Payment
<1>4. Worth(S) >= amount + fee
  BY DEF Affordable
<1> HIDE DEF fee
<1>5. rest \in Nat
  BY <1>2, <1>4
<1>6. change \in Nat /\ change <= rest
  BY <1>5, ConstantTypes
<1>7. x.inputs = S /\ x.rate = rate /\ x.amount = amount /\ x.change = change
      /\ x.fee = fee + (rest - change)
  BY <1>3
<1> QED
  BY <1>2, <1>5, <1>6, <1>7

LEMMA BuiltIsFunded ==
  ASSUME txs \in Seq(Txs), Len(txs) <= MaxTxs,
         NEW j, j.view \subseteq DOMAIN txs, j.kind \in Kinds, j.amount \in Nat,
         NEW rate \in Nat, NEW x \in Built(j, rate)
  PROVE  Funded(x, Len(txs) + 1) /\ x \in Drafts
<1>0. Len(txs) \in Nat /\ DOMAIN txs = 1 .. Len(txs)
  BY TransactionTypes
<1>1. j.view \subseteq 1 .. Len(txs) /\ Unspent(j.view) \subseteq 1 .. InitialCoins + Len(txs)
  <2>1. j.view \subseteq 1 .. Len(txs) /\ Len(txs) \in 0 .. Len(txs)
    BY <1>0
  <2> QED
    BY <2>1, UnspentCoins
<1>2. \A S \in SUBSET Unspent(j.view) :
        S \subseteq 1 .. InitialCoins + Len(txs) /\ IsFiniteSet(S) /\ Worth(S) \in Nat
  <2> SUFFICES ASSUME NEW S \in SUBSET Unspent(j.view)
               PROVE  /\ S \subseteq 1 .. InitialCoins + Len(txs)
                      /\ IsFiniteSet(S) /\ Worth(S) \in Nat
    OBVIOUS
  <2>1. S \subseteq 1 .. InitialCoins + Len(txs)
    BY <1>1
  <2> QED
    BY <2>1, CoinsAreWorth
<1>3. \A c \in Unspent(j.view) : c > InitialCoins => txs[c - InitialCoins].change > 0
  <2> SUFFICES ASSUME NEW c \in Unspent(j.view), c > InitialCoins
               PROVE  txs[c - InitialCoins].change > 0
    OBVIOUS
  <2>1. c \notin 1 .. InitialCoins
    BY ConstantTypes
  <2>2. PICK t \in j.view : txs[t].change > 0 /\ c = InitialCoins + t
    BY <2>1 DEF Unspent
  <2>3. c - InitialCoins = t
    BY <1>1, <2>2, ConstantTypes
  <2> QED
    BY <2>2, <2>3
<1>4. /\ x.inputs \subseteq Unspent(j.view) /\ x.rate = rate
      /\ x.amount \in Nat /\ x.fee \in Nat /\ x.change \in Nat
      /\ Worth(x.inputs) = x.amount + x.fee + x.change
      /\ x = [inputs |-> x.inputs, amount |-> x.amount, fee |-> x.fee, rate |-> x.rate,
              change |-> x.change]
  <2>1. CASE j.kind \in {"send", "deposit"}
    <3>1. PICK S \in SUBSET Unspent(j.view) :
            Affordable(j.amount, rate, S) /\ x = Payment(j.amount, rate, S)
      BY <2>1 DEF Built, BuildTransfer, BuildDepositRequest
    <3>2. x = [inputs |-> x.inputs, amount |-> x.amount, fee |-> x.fee, rate |-> x.rate,
               change |-> x.change]
      BY <3>1 DEF Payment
    <3> QED
      BY <1>2, <3>1, <3>2, PaymentAddsUp
  <2>2. CASE j.kind = "drain"
    <3> DEFINE inputs == Unspent(j.view)
               fee == rate * Cardinality(inputs)
               amount == Worth(inputs) - fee
    <3>1. /\ x = [inputs |-> inputs, amount |-> amount, rate |-> rate, fee |-> fee, change |-> 0]
          /\ amount >= Dust
      BY <2>2 DEF Built, BuildDrain
    <3>2. Worth(inputs) \in Nat /\ Cardinality(inputs) \in Nat
      BY <1>2, FS_CardinalityType
    <3>3. fee \in Nat
      <4>1. \A a \in Nat, b \in Nat : a * b \in Nat
        OBVIOUS
      <4> QED
        BY <3>2, <4>1
    <3> HIDE DEF inputs, fee
    <3>4. amount \in Nat /\ Worth(inputs) = amount + fee + 0
      BY <3>1, <3>2, <3>3, ConstantTypes
    <3>5. x.inputs = inputs /\ x.amount = amount /\ x.fee = fee /\ x.change = 0 /\ x.rate = rate
      BY <3>1
    <3>6. x = [inputs |-> x.inputs, amount |-> x.amount, fee |-> x.fee, rate |-> x.rate,
               change |-> x.change]
      BY <3>1, <3>5
    <3> QED
      BY <3>3, <3>4, <3>5, <3>6 DEF inputs
  <2> QED
    BY <2>1, <2>2 DEF Kinds
<1>5. x.inputs \subseteq 1 .. InitialCoins + Len(txs)
  BY <1>2, <1>4
<1>6. 1 .. InitialCoins + Len(txs) \subseteq Coins
  BY <1>0, ConstantTypes DEF Coins
<1>7. InitialCoins + (Len(txs) + 1) - 1 = InitialCoins + Len(txs)
  BY <1>0, ConstantTypes
<1>8. x \in Drafts
  BY <1>4, <1>5, <1>6 DEF Drafts
<1> QED
  BY <1>3, <1>4, <1>5, <1>7, <1>8 DEF Funded

(* What a wallet takes for standing after a sync spends no coin twice.     *)
LEMMA ViewIsSound ==
  ASSUME IInv, NEW seen \in SUBSET Alive, NEW known, Sound(known)
  PROVE  Sound(ViewAfter(known, seen))
<1>0. Alive \subseteq DOMAIN txs /\ DOMAIN txs \subseteq Nat
  BY DEF Alive, IInv, Shape, ShapeOver
<1>1. Sound(seen)
  BY <1>0 DEF IInv, Lasting, Sound
<1> DEFINE all == known \cup seen
           kept == {t \in all : t \in seen \/ \A u \in all : Conflict(t, u) => u \notin seen /\ u < t}
<1>2. kept \subseteq DOMAIN txs
  BY <1>1 DEF Sound
<1>3. \A t \in kept, u \in kept : ~Conflict(t, u)
  <2> SUFFICES ASSUME NEW t \in kept, NEW u \in kept, Conflict(t, u) PROVE FALSE
    OBVIOUS
  <2>1. Conflict(u, t)
    BY DEF Conflict
  <2>2. t \in Nat /\ u \in Nat
    BY <1>0, <1>2
  <2> QED
    BY <1>1, <2>1, <2>2 DEF Sound
<1>4. CoreView(known, seen) \subseteq kept
  BY DEF CoreView
<1> HIDE DEF kept
<1> QED
  BY <1>1, <1>2, <1>3, <1>4 DEF Sound, ViewAfter, EsploraView

(* What the network accepts is worth no more than the wallet had.          *)
LEMMA AcceptedIsPaid ==
  ASSUME IInv, MoneyInv, NEW x \in Drafts, Funded(x, Len(txs) + 1), Accepts(x)
  PROVE  x \in Txs
<1> DEFINE kept == WithParents({t \in Alive : txs[t].inputs \cap x.inputs = {}})
           V == Alive \ Replaced(x)
<1>1. kept \subseteq Alive /\ \A t \in kept : Parents(t) \subseteq kept
  BY WithParentsClosed
<1>4. DOMAIN txs = 1 .. Len(txs) /\ Len(txs) \in Nat
  BY TransactionTypes DEF MoneyInv
<1>5. PICK W : W = (mempool \cap kept) \cup blocks
  OBVIOUS
<1>6. V \subseteq W /\ W \subseteq Alive
  BY <1>5 DEF Alive, Replaced
<1>7. \A t \in W : txs[t].inputs \cap x.inputs = {}
  <2>1. \A t \in kept : txs[t].inputs \cap x.inputs = {}
    BY DEF WithParents
  <2>2. \A t \in blocks : txs[t].inputs \cap x.inputs = {}
    BY DEF Accepts
  <2> HIDE DEF kept, V
  <2> QED
    BY <1>5, <2>1, <2>2
<1>8. Standing(W)
  <2>1. \A t \in W : Parents(t) \subseteq W
    BY <1>1, <1>5 DEF IInv, AliveClosed, Alive
  <2>2. \A t \in W, u \in W : ~Conflict(t, u)
    BY <1>6 DEF IInv, Lasting, Shape, Alive
  <2>3. W \subseteq DOMAIN txs
    BY <1>6 DEF IInv, Shape, Alive
  <2> QED
    BY <2>1, <2>2, <2>3 DEF Standing, Sound, Whole
<1>9. x.inputs \subseteq Unspent(W)
  <2> SUFFICES ASSUME NEW c \in x.inputs PROVE c \in Unspent(W)
    OBVIOUS
  <2>1. \A t \in W : c \notin txs[t].inputs
    BY <1>7
  <2>2. c \in 1 .. InitialCoins + Len(txs)
    BY <1>4, ConstantTypes DEF Funded
  <2>3. CASE c > InitialCoins
    <3>1. c - InitialCoins \in W /\ txs[c - InitialCoins].change > 0
      BY <1>6, <2>3 DEF Accepts, Funded
    <3>2. c = InitialCoins + (c - InitialCoins)
      BY <2>2, ConstantTypes
    <3> QED
      BY <2>1, <3>1, <3>2 DEF Unspent
  <2>4. CASE ~(c > InitialCoins)
    <3>1. c \in 1 .. InitialCoins
      BY <2>2, <2>4, ConstantTypes
    <3> QED
      BY <2>1, <3>1 DEF Unspent
  <2> QED
    BY <2>3, <2>4
<1>10. Unspent(W) \subseteq 1 .. InitialCoins + Len(txs)
  <2>1. W \subseteq 1 .. Len(txs) /\ Len(txs) \in 0 .. Len(txs)
    BY <1>4, <1>8 DEF Standing, Sound
  <2> QED
    BY <2>1, UnspentCoins DEF MoneyInv
<1>11. PICK all : all = Unspent(W)
  OBVIOUS
<1>12. /\ Worth(all) = Worth(x.inputs) + Worth(all \ x.inputs)
       /\ Worth(x.inputs) \in Nat /\ Worth(all \ x.inputs) \in Nat
  BY <1>9, <1>10, <1>11, CoinsAreWorth DEF MoneyInv
<1>13. Worth(all) \in Nat /\ Worth(all) <= InitialCoins * CoinValue
  BY <1>8, <1>11, Conservation, ConstantTypes DEF MoneyInv, Wealth
<1>14. Worth(x.inputs) <= InitialCoins * CoinValue
  BY <1>12, <1>13, ConstantTypes
<1>15. x.amount \in Wealth /\ x.fee \in Wealth /\ x.change \in Wealth
  BY <1>14, ConstantTypes DEF Funded, Wealth
<1> QED
  BY <1>15 DEF Drafts, Txs

-----------------------------------------------------------------------------
(* The steps, and what they do with money.                                 *)

(* The inductive invariant of money and types. *)
TypeInv == IInv /\ TransfersTypeOK /\ MoneyInv

JobTypes == [kind : Kinds \cup {"none"}, amount : Amounts \cup {0}, view : SUBSET Ids,
             read : SUBSET Ids, missed : SUBSET Ids, tx : Drafts]

(* Steps that send nothing.                                                *)
LEMMA MoneyStays ==
  ASSUME MoneyInv, UNCHANGED txs, stored' = stored \/ Sound(stored'),
         \A p \in Procs : \/ job'[p] = job[p] /\ pc'[p] = pc[p]
                          \/ /\ Sound(job'[p].view)
                             /\ pc'[p] = "built" => Funded(job'[p].tx, Len(txs) + 1)
  PROVE  MoneyInv'
<1>1. \A S : SumFunctionOnSet(Value', S) = SumFunctionOnSet(Value, S)
  BY DEF Value
<1>2. \A t \in DOMAIN txs' : Funded(txs[t], t)'
  BY <1>1 DEF MoneyInv, Funded, Worth
<1>4. Sound(stored)'
  <2>1. Sound(stored')
    BY DEF MoneyInv
  <2> QED
    BY <2>1 DEF Sound, Conflict
<1>5. ASSUME NEW p \in Procs PROVE Sound(job[p].view)'
  <2>1. Sound(job'[p].view)
    BY DEF MoneyInv
  <2> QED
    BY <2>1 DEF Sound, Conflict
<1>6. ASSUME NEW p \in Procs, pc'[p] = "built" PROVE Funded(job[p].tx, Len(txs) + 1)'
  <2>1. Funded(job'[p].tx, Len(txs) + 1)
    BY <1>6 DEF MoneyInv
  <2> QED
    BY <1>1, <2>1 DEF Funded, Worth
<1> QED
  BY <1>2, <1>4, <1>5, <1>6 DEF MoneyInv

LEMMA ViewTypes ==
  ASSUME TypeInv, NEW V, V \subseteq DOMAIN txs
  PROVE  V \in SUBSET Ids
<1>1. DOMAIN txs = 1 .. Len(txs) /\ Len(txs) \in Nat /\ Len(txs) <= MaxTxs
  BY TransactionTypes DEF TypeInv, MoneyInv, TransfersTypeOK
<1> QED
  BY <1>1, ConstantTypes DEF Ids

LEMMA NothingIsSound == Sound({})
BY DEF Sound

LEMMA NoTxType == NoTx \in Drafts
BY DEF NoTx, Drafts

(* Steps of one process that send nothing.                                 *)
LEMMA TypeQuietStep ==
  ASSUME TypeInv, IInv', UNCHANGED <<cap, txs, mempool, blocks, reported, drops>>,
         stored' = stored \/ Sound(stored'),
         NEW p \in Procs, NEW j \in JobTypes, job' = [job EXCEPT ![p] = j],
         \A q \in Procs \ {p} : pc'[q] = pc[q],
         Sound(j.view), pc'[p] = "built" => Funded(j.tx, Len(txs) + 1)
  PROVE  TypeInv'
<1>1. job \in [Procs -> JobTypes]
  BY DEF TypeInv, TransfersTypeOK, JobTypes
<1>2. job' \in [Procs -> JobTypes] /\ job'[p] = j /\ \A q \in Procs \ {p} : job'[q] = job[q]
  BY <1>1
<1>4. MoneyInv'
  <2>1. \A q \in Procs : \/ job'[q] = job[q] /\ pc'[q] = pc[q]
                         \/ /\ Sound(job'[q].view)
                            /\ pc'[q] = "built" => Funded(job'[q].tx, Len(txs) + 1)
    BY <1>2
  <2> QED
    BY <2>1, MoneyStays DEF TypeInv
<1>5. TransfersTypeOK'
  BY <1>2, <1>4 DEF TypeInv, TransfersTypeOK, JobTypes, IInv, Shape, MoneyInv, Sound
<1> QED
  BY <1>4, <1>5 DEF TypeInv

LEMMA InitTyped == Init => TypeInv
<1> SUFFICES ASSUME Init PROVE TypeInv
  OBVIOUS
<1>1. txs \in Seq(Txs) /\ DOMAIN txs = {} /\ Len(txs) = 0 /\ Alive = {} /\ stored = {}
  BY DEF Init, Alive
<1>2. NoJob \in JobTypes /\ NoJob.view = {}
  BY NoTxType DEF JobTypes, NoJob
<1>3. job \in [Procs -> JobTypes] /\ \A p \in Procs : job[p].view = {} /\ pc[p] = "idle"
  BY <1>2 DEF Init
<1>4. MoneyInv
  BY <1>1, <1>3, NothingIsSound DEF MoneyInv
<1>5. TransfersTypeOK
  BY <1>1, <1>3, ConstantTypes DEF Init, AcceptedCaps, Steps, TransfersTypeOK, JobTypes
<1> QED
  BY <1>4, <1>5, InitInv DEF TypeInv

LEMMA BeginTyped ==
  ASSUME TypeInv, NEW p \in Procs, Begin(p) PROVE TypeInv'
<1>1. PICK k \in Kinds, a \in Amounts \cup {0} :
        job' = [job EXCEPT ![p] = [NoJob EXCEPT !.kind = k, !.amount = a, !.view = stored]]
  BY DEF Begin
<1>2. Sound(stored) /\ stored \in SUBSET Ids
  BY ViewTypes DEF TypeInv, MoneyInv, Sound
<1> DEFINE j == [NoJob EXCEPT !.kind = k, !.amount = a, !.view = stored]
<1>3. j \in JobTypes /\ j.view = stored
  BY <1>2, NoTxType DEF JobTypes, NoJob
<1>4. IInv' /\ pc'[p] # "built" /\ \A q \in Procs \ {p} : pc'[q] = pc[q]
  BY BeginInv DEF TypeInv, TransfersTypeOK, Begin
<1> QED
  BY <1>1, <1>2, <1>3, <1>4, TypeQuietStep DEF Begin, network

LEMMA SyncTyped ==
  ASSUME TypeInv, NEW p \in Procs, EsploraSync(p) \/ ReadMempool(p) PROVE TypeInv'
<1>1. PICK seen \in SUBSET Alive : Apply(p, seen)
  BY SyncApplies DEF TypeInv
<1>2. UNCHANGED <<cap, txs, mempool, blocks, reported, drops>>
  BY SyncApplies DEF TypeInv, network
<1> DEFINE view == ViewAfter(job[p].view, seen)
           missed == blocks \ seen
<1>3. Sound(view) /\ Sound(stored')
  BY <1>1, ViewIsSound DEF TypeInv, MoneyInv, Apply
<1>4. view \in SUBSET Ids /\ missed \in SUBSET Ids
  <2>1. view \subseteq DOMAIN txs /\ missed \subseteq DOMAIN txs
    BY <1>3 DEF Sound, TypeInv, TransfersTypeOK
  <2> QED
    BY <2>1, ViewTypes
<1>5. PICK j : j = [NoJob EXCEPT !.kind = job[p].kind, !.amount = job[p].amount,
                             !.view = view, !.missed = missed]
  OBVIOUS
<1>6. job' = [job EXCEPT ![p] = j]
  BY <1>1, <1>5 DEF Apply
<1> HIDE DEF view, missed
<1>7. j \in JobTypes /\ j.view = view
  <2>1. job[p].kind \in Kinds \cup {"none"} /\ job[p].amount \in Amounts \cup {0}
    BY DEF TypeInv, TransfersTypeOK
  <2> QED
    BY <1>4, <1>5, <2>1, NoTxType DEF JobTypes, NoJob
<1>8. IInv' /\ pc'[p] # "built" /\ \A q \in Procs \ {p} : pc'[q] = pc[q]
  BY <1>1, SyncInv DEF TypeInv, TransfersTypeOK, Apply
<1> QED
  BY <1>2, <1>3, <1>6, <1>7, <1>8, TypeQuietStep

LEMMA ReadBlocksTyped ==
  ASSUME TypeInv, NEW p \in Procs, ReadBlocks(p) PROVE TypeInv'
<1>1. PICK j : j = [job[p] EXCEPT !.read = blocks]
  OBVIOUS
<1>2. job[p] \in JobTypes /\ Sound(job[p].view)
  BY DEF TypeInv, TransfersTypeOK, JobTypes, MoneyInv
<1>3. blocks \in SUBSET Ids
  BY ViewTypes DEF TypeInv, TransfersTypeOK
<1>4. j \in JobTypes /\ j.view = job[p].view
  BY <1>1, <1>2, <1>3 DEF JobTypes
<1>5. IInv' /\ pc'[p] # "built" /\ \A q \in Procs \ {p} : pc'[q] = pc[q]
  BY ReadBlocksInv DEF TypeInv, TransfersTypeOK, ReadBlocks
<1>6. job' = [job EXCEPT ![p] = j]
  BY <1>1 DEF ReadBlocks
<1> QED
  BY <1>2, <1>4, <1>5, <1>6, TypeQuietStep DEF ReadBlocks, network

LEMMA BuildTyped ==
  ASSUME TypeInv, NEW p \in Procs, Build(p) PROVE TypeInv'
<1>1. PICK rate \in GetFeeRate : \E x \in Built(job[p], rate) :
        job' = [job EXCEPT ![p] = [NoJob EXCEPT !.kind = job[p].kind, !.missed = job[p].missed, !.tx = x]]
  BY DEF Build
<1>2. PICK x \in Built(job[p], rate) :
        job' = [job EXCEPT ![p] = [NoJob EXCEPT !.kind = job[p].kind, !.missed = job[p].missed, !.tx = x]]
  BY <1>1
<1>3. job[p].kind \in Kinds /\ job[p].amount \in Nat /\ job[p].missed \in SUBSET Ids
  BY ConstantTypes DEF TypeInv, TransfersTypeOK, IInv, ProcInv, Build
<1>4. rate \in Nat
  <2>1. rate \in BroadcastMin .. cap /\ cap \in Nat
    BY RateWithinCap DEF TypeInv, IInv, Shape
  <2> QED
    BY <2>1 DEF BroadcastMin
<1>5. Funded(x, Len(txs) + 1) /\ x \in Drafts
  <2>1. txs \in Seq(Txs) /\ Len(txs) <= MaxTxs /\ job[p].view \subseteq DOMAIN txs
    BY DEF TypeInv, MoneyInv, TransfersTypeOK, Sound
  <2> QED
    BY <1>3, <1>4, <2>1, BuiltIsFunded
<1>6. PICK j : j = [NoJob EXCEPT !.kind = job[p].kind, !.missed = job[p].missed, !.tx = x]
  OBVIOUS
<1>7. j \in JobTypes /\ j.view = {} /\ j.tx = x
  BY <1>3, <1>5, <1>6 DEF JobTypes, NoJob
<1>8. IInv' /\ \A q \in Procs \ {p} : pc'[q] = pc[q]
  BY BuildInv DEF TypeInv, TransfersTypeOK, Build
<1>9. job' = [job EXCEPT ![p] = j]
  BY <1>2, <1>6
<1> QED
  BY <1>5, <1>7, <1>8, <1>9, NothingIsSound, TypeQuietStep DEF Build, network

LEMMA LeaveTyped ==
  ASSUME TypeInv, NEW p \in Procs, BroadcastRefused(p) \/ End(p) PROVE TypeInv'
<1>1. NoJob \in JobTypes /\ NoJob.view = {}
  BY NoTxType DEF JobTypes, NoJob
<1>2. job' = [job EXCEPT ![p] = NoJob]
  BY DEF BroadcastRefused, End, Leave
<1>3. pc'[p] # "built" /\ \A q \in Procs \ {p} : pc'[q] = pc[q]
  BY DEF TypeInv, TransfersTypeOK, BroadcastRefused, End, Leave
<1>4. IInv'
  BY BroadcastRefusedInv, EndInv DEF TypeInv
<1>5. UNCHANGED <<cap, txs, mempool, blocks, stored, reported, drops>>
  BY DEF BroadcastRefused, End, network
<1> QED
  BY <1>1, <1>2, <1>3, <1>4, <1>5, NothingIsSound, TypeQuietStep

LEMMA NetworkTyped ==
  ASSUME TypeInv, Confirm \/ DropFromMempool PROVE TypeInv'
<1>1. IInv'
  BY ConfirmInv, DropInv DEF TypeInv
<1>2. UNCHANGED <<cap, txs, stored, job, pc, reported>>
  BY DEF Confirm, DropFromMempool
<1>3. /\ mempool' \cap blocks' = {}
      /\ drops' \in 0 .. MaxDrops
  <2>1. CASE Confirm
    BY <2>1 DEF Confirm, Alive, TypeInv, TransfersTypeOK
  <2>2. CASE DropFromMempool
    <3>1. PICK t \in mempool : mempool' = WithParents(Alive \ {t}) \ blocks
      BY <2>2 DEF DropFromMempool
    <3>2. WithParents(Alive \ {t}) \subseteq Alive
      BY WithParentsClosed
    <3>3. drops' \in 0 .. MaxDrops
      BY <2>2, ConstantTypes DEF DropFromMempool, TypeInv, TransfersTypeOK
    <3> QED
      BY <2>2, <3>1, <3>2, <3>3 DEF DropFromMempool, Alive
  <2> QED
    BY <2>1, <2>2
<1>4. MoneyInv'
  BY <1>2, MoneyStays DEF TypeInv
<1>5. TransfersTypeOK'
  BY <1>1, <1>2, <1>3, <1>4 DEF TypeInv, TransfersTypeOK, IInv, Shape, MoneyInv, Sound
<1> QED
  BY <1>1, <1>4, <1>5 DEF TypeInv

(* What was funded stays so when the network accepts another transaction.  *)
LEMMA FundedStays ==
  ASSUME txs \in Seq(Txs), NEW y \in Txs, txs' = Append(txs, y),
         NEW n \in 1 .. Len(txs) + 1, NEW x, Funded(x, n)
  PROVE  /\ \A c \in x.inputs : c > InitialCoins => txs'[c - InitialCoins].change > 0
         /\ SumFunctionOnSet(Value', x.inputs) = x.amount + x.fee + x.change
<1>1. /\ Len(txs) \in Nat /\ DOMAIN txs = 1 .. Len(txs)
      /\ Len(txs') = Len(txs) + 1 /\ \A t \in DOMAIN txs : txs'[t] = txs[t]
  BY TransactionTypes, AppendProperties
<1>2. x.inputs \subseteq 1 .. InitialCoins + Len(txs)
  <2>1. 1 .. InitialCoins + n - 1 \subseteq 1 .. InitialCoins + Len(txs)
    BY <1>1, ConstantTypes
  <2>2. x.inputs \subseteq 1 .. InitialCoins + n - 1
    BY DEF Funded
  <2> QED
    BY <2>1, <2>2
<1>3. \A c \in x.inputs : c > InitialCoins => c - InitialCoins \in DOMAIN txs
  BY <1>1, <1>2, ConstantTypes
<1>4. \A c \in x.inputs : Value'[c] = Value[c]
  <2> SUFFICES ASSUME NEW c \in x.inputs PROVE Value'[c] = Value[c]
    OBVIOUS
  <2>1. c \in 1 .. InitialCoins + Len(txs) /\ c \in 1 .. InitialCoins + Len(txs')
    BY <1>1, <1>2, ConstantTypes
  <2>2. c > InitialCoins \/ c <= InitialCoins
    BY <2>1, ConstantTypes
  <2>3. ~(c <= InitialCoins) => txs'[c - InitialCoins] = txs[c - InitialCoins]
    BY <1>1, <1>3, <2>2
  <2> QED
    BY <2>1, <2>3 DEF Value
<1>5. IsFiniteSet(x.inputs)
  BY <1>2, CoinsAreWorth
<1>6. SumFunctionOnSet(Value', x.inputs) = SumFunctionOnSet(Value, x.inputs)
  BY <1>4, <1>5, SumAgrees
<1> QED
  BY <1>1, <1>3, <1>6 DEF Funded, Worth

(* A sent transaction is funded from what stands.                          *)
LEMMA BroadcastTyped ==
  ASSUME TypeInv, NEW p \in Procs, Broadcast(p) PROVE TypeInv'
<1>0. PICK x : x = job[p].tx
  OBVIOUS
<1> DEFINE n == Len(txs) + 1
<1>1. x \in Txs /\ job \in [Procs -> JobTypes]
  <2>1. x \in Drafts /\ job \in [Procs -> JobTypes]
    BY <1>0 DEF TypeInv, TransfersTypeOK, JobTypes
  <2>2. Funded(x, Len(txs) + 1) /\ Accepts(x)
    BY <1>0 DEF TypeInv, MoneyInv, Broadcast
  <2> QED
    BY <2>1, <2>2, AcceptedIsPaid DEF TypeInv
<1>2. txs \in Seq(Txs) /\ Len(txs) \in Nat /\ DOMAIN txs = 1 .. Len(txs)
  BY TransactionTypes DEF TypeInv, MoneyInv
<1>3. txs' = Append(txs, x) /\ Funded(x, n) /\ pc[p] = "built" /\ Len(txs) < MaxTxs
  BY <1>0 DEF TypeInv, MoneyInv, Broadcast
<1>4. /\ txs' \in Seq(Txs) /\ DOMAIN txs' = 1 .. n /\ txs'[n] = x /\ Len(txs') = n
      /\ \A t \in DOMAIN txs : txs'[t] = txs[t]
  BY <1>1, <1>2, <1>3, AppendProperties
<1>5. IInv'
  BY BroadcastInv DEF TypeInv
<1>6. \A t \in DOMAIN txs' : Funded(txs[t], t)'
  <2> SUFFICES ASSUME NEW t \in 1 .. n PROVE Funded(txs[t], t)'
    BY <1>4
  <2>1. Funded(txs'[t], t)
    <3>1. CASE t = n
      BY <1>3, <1>4, <3>1
    <3>2. CASE t # n
      <4>1. t \in DOMAIN txs
        BY <1>2, <3>2
      <4> QED
        BY <1>4, <4>1 DEF TypeInv, MoneyInv
    <3> QED
      BY <3>1, <3>2
  <2>2. /\ \A c \in txs'[t].inputs : c > InitialCoins => txs'[c - InitialCoins].change > 0
        /\ SumFunctionOnSet(Value', txs'[t].inputs) =
             txs'[t].amount + txs'[t].fee + txs'[t].change
    BY <1>1, <1>2, <1>3, <2>1, FundedStays
  <2> QED
    BY <2>1, <2>2 DEF Funded, Worth
<1>7. mempool' \subseteq mempool \cup {n} /\ blocks' = blocks
  BY <1>0 DEF Broadcast
<1>8. n \notin blocks
  BY <1>2 DEF TypeInv, TransfersTypeOK
<1>11. ASSUME NEW V, Sound(V)
       PROVE  /\ V \subseteq DOMAIN txs'
              /\ \A t \in V, u \in V : ~(t # u /\ txs'[t].inputs \cap txs'[u].inputs # {})
  <2>1. V \subseteq DOMAIN txs /\ \A t \in V : txs'[t] = txs[t]
    BY <1>4, <1>11 DEF Sound
  <2>2. V \subseteq DOMAIN txs'
    BY <1>2, <1>4, <2>1
  <2> QED
    BY <1>11, <2>1, <2>2 DEF Sound, Conflict
<1>12. /\ job' \in [Procs -> JobTypes]
       /\ \A q \in Procs : job'[q].view = {} \/ job'[q].view = job[q].view
       /\ \A q \in Procs : pc'[q] = "built" => pc[q] = "built" /\ job'[q] = job[q]
  <2> DEFINE left == [NoJob EXCEPT !.kind = job[p].kind]
  <2>1. NoJob \in JobTypes /\ NoJob.view = {} /\ left \in JobTypes /\ left.view = {}
    BY <1>1, NoTxType DEF JobTypes, NoJob
  <2>2. \/ job' = [job EXCEPT ![p] = left] /\ pc' = [pc EXCEPT ![p] = "sent"]
        \/ job' = [job EXCEPT ![p] = NoJob] /\ pc' = [pc EXCEPT ![p] = "idle"]
    BY DEF Broadcast, Leave
  <2> HIDE DEF left
  <2> QED
    BY <1>1, <2>1, <2>2 DEF TypeInv, TransfersTypeOK
<1>13. Sound(stored)'
  <2>1. Sound(stored) /\ stored' = stored
    BY DEF TypeInv, MoneyInv, Broadcast
  <2> QED
    BY <1>11, <2>1 DEF Sound, Conflict
<1>14. ASSUME NEW q \in Procs PROVE Sound(job[q].view)'
  <2>1. Sound(job'[q].view)
    BY <1>12, NothingIsSound DEF TypeInv, MoneyInv
  <2> QED
    BY <1>11, <2>1 DEF Sound, Conflict
<1>15. ASSUME NEW q \in Procs, pc'[q] = "built" PROVE Funded(job[q].tx, Len(txs) + 1)'
  <2>1. Funded(job'[q].tx, n)
    BY <1>12, <1>15 DEF TypeInv, MoneyInv
  <2>2. n \in 1 .. Len(txs) + 1
    BY <1>2
  <2>3. /\ \A c \in job'[q].tx.inputs : c > InitialCoins => txs'[c - InitialCoins].change > 0
        /\ SumFunctionOnSet(Value', job'[q].tx.inputs) =
             job'[q].tx.amount + job'[q].tx.fee + job'[q].tx.change
    BY <1>1, <1>2, <1>3, <2>1, <2>2, FundedStays
  <2>4. job'[q].tx.inputs \subseteq 1 .. InitialCoins + (n + 1) - 1
    <3>1. job'[q].tx.inputs \subseteq 1 .. InitialCoins + n - 1
      BY <2>1 DEF Funded
    <3>2. 1 .. InitialCoins + n - 1 \subseteq 1 .. InitialCoins + (n + 1) - 1
      BY <1>2, ConstantTypes
    <3> QED
      BY <3>1, <3>2
  <2> QED
    BY <1>4, <2>1, <2>3, <2>4 DEF Funded, Worth
<1>16. MoneyInv'
  BY <1>4, <1>6, <1>13, <1>14, <1>15 DEF MoneyInv
<1>17. TransfersTypeOK'
  <2>1. /\ mempool' \subseteq DOMAIN txs' /\ blocks' \subseteq DOMAIN txs'
        /\ mempool' \cap blocks' = {} /\ reported' \subseteq DOMAIN txs'
    <3>1. n \in DOMAIN txs' /\ DOMAIN txs \subseteq DOMAIN txs'
      BY <1>2, <1>4
    <3>2. reported' \subseteq reported \cup {n}
      BY DEF Broadcast
    <3>3. reported \subseteq DOMAIN txs /\ mempool \subseteq DOMAIN txs /\ blocks \subseteq DOMAIN txs
          /\ mempool \cap blocks = {}
      BY DEF TypeInv, TransfersTypeOK
    <3> HIDE DEF n
    <3> QED
      BY <1>7, <1>8, <3>1, <3>2, <3>3
  <2>2. Len(txs') <= MaxTxs
    BY <1>2, <1>3, <1>4, ConstantTypes
  <2>3. \A t \in DOMAIN txs' : txs'[t] \in Txs
    BY <1>4
  <2>4. UNCHANGED <<backend, cap, stored, drops>>
    BY DEF Broadcast
  <2>5. stored' \subseteq DOMAIN txs'
    BY <1>13 DEF Sound
  <2>6. pc' \in [Procs -> Steps] /\ overtaken' \in [Procs -> BOOLEAN]
    BY <1>5 DEF IInv, Shape
  <2> QED
    BY <1>12, <2>1, <2>2, <2>3, <2>4, <2>5, <2>6 DEF TypeInv, TransfersTypeOK, JobTypes
<1> QED
  BY <1>5, <1>16, <1>17 DEF TypeInv

LEMMA TypesInvariant == Spec => []TypeInv
<1>1. ASSUME TypeInv, [Next]_vars PROVE TypeInv'
  <2>1. CASE Confirm \/ DropFromMempool
    BY <1>1, <2>1, NetworkTyped
  <2>2. ASSUME NEW p \in Procs, Step(p) PROVE TypeInv'
    BY <1>1, <2>2, BeginTyped, SyncTyped, ReadBlocksTyped, BuildTyped, BroadcastTyped, LeaveTyped DEF Step
  <2>3. CASE UNCHANGED vars
    <3>0. IInv'
      BY <1>1, NextInv DEF TypeInv
    <3>1. UNCHANGED <<txs, stored, pc, job>>
      BY <2>3 DEF vars, network
    <3>2. MoneyInv'
      BY <1>1, <3>1, MoneyStays DEF TypeInv
    <3>3. TransfersTypeOK'
      BY <1>1, <2>3 DEF TypeInv, TransfersTypeOK, vars, network
    <3> QED
      BY <3>0, <3>2, <3>3 DEF TypeInv
  <2> QED
    BY <1>1, <2>1, <2>2, <2>3 DEF Next
<1> QED
  BY <1>1, InitTyped, PTL DEF Spec

-----------------------------------------------------------------------------
(* The theorems.                                                           *)

(***************************************************************************)
(* While nothing has overtaken a process, its view and its transaction     *)
(* agree with the network.                                                 *)
(***************************************************************************)
THEOREM ViewsStayCurrent ==
  ASSUME Lagging = FALSE PROVE Spec => []TransfersInv
BY Invariance, IInvImplies, PTL

(***************************************************************************)
(* A node refuses what was built after a sync only if the network changed  *)
(* in between (send and drain, on Esplora).                                *)
(***************************************************************************)
THEOREM RefusalsAreExplained ==
  ASSUME Lagging = FALSE PROVE Spec => []RefusedOnlyIfOvertaken
BY Invariance, IInvImplies, PTL

(***************************************************************************)
(* A drain that nothing overtook leaves no coin unspent (on Esplora).      *)
(***************************************************************************)
THEOREM DrainsTakeAll ==
  ASSUME Lagging = FALSE PROVE Spec => []DrainTakesAll
BY Invariance, IInvImplies, PTL

(***************************************************************************)
(* A command replaces a payment that was reported as sent only if it had   *)
(* synced before that payment was sent.                                    *)
(***************************************************************************)
THEOREM ReportedPaymentsStand ==
  ASSUME Lagging = FALSE PROVE Spec => SentStands
<1>1. ASSUME IInv, [Next]_vars
      PROVE  [\A p \in Procs : Broadcast(p) =>
                overtaken[p] \/ reported \cap Replaced(job[p].tx) = {}]_vars
  BY <1>1, CurrentIsAccepted DEF Broadcast
<1> QED
  BY <1>1, Invariance, PTL DEF Spec, SentStands

(***************************************************************************)
(* No sync makes the wallet file forget a transaction that stands: one in  *)
(* a block, nor, on Bitcoin Core, one in the mempool (sync_wallet).  The   *)
(* backend may lag.                                                        *)
(***************************************************************************)
THEOREM StandingPaymentsStayKnown == Spec => StandingStaysKnown
<1>1. ASSUME IInv, [Next]_vars
      PROVE  [ /\ stored \cap blocks \subseteq stored'
               /\ backend = "core" => stored \cap Alive \subseteq stored' ]_vars
  <2>1. ASSUME NEW p \in Procs, EsploraSync(p) \/ ReadMempool(p)
        PROVE  /\ stored \cap blocks \subseteq stored'
               /\ backend = "core" => stored \cap Alive \subseteq stored'
    <3>1. PICK seen \in SUBSET Alive : Apply(p, seen) /\ (backend = "esplora" => blocks \subseteq seen)
      BY <1>1, <2>1, SyncApplies
    <3>2. stored \subseteq DOMAIN txs /\ backend \in {"esplora", "core"} /\ stored' = ViewAfter(stored, seen)
      BY <1>1, <3>1, TransfersAssumption DEF IInv, Shape, Apply
    <3>3. /\ backend = "esplora" => stored' = seen
          /\ backend # "esplora" => stored \cap Alive \subseteq stored'
      BY <1>1, <3>2, StandingIsKept
    <3> QED
      BY <3>1, <3>2, <3>3 DEF Alive
  <2>2. ASSUME Next, \A p \in Procs : ~EsploraSync(p) /\ ~ReadMempool(p) PROVE stored' = stored
    <3>1. CASE Confirm \/ DropFromMempool
      BY <3>1 DEF Confirm, DropFromMempool
    <3>2. ASSUME NEW p \in Procs, Step(p) PROVE stored' = stored
      BY <2>2, <3>2 DEF Step, Begin, ReadBlocks, Build, Broadcast, BroadcastRefused, End
    <3> QED
      BY <2>2, <3>1, <3>2 DEF Next
  <2> QED
    BY <1>1, <2>1, <2>2
<1> QED
  BY <1>1, Invariance, PTL DEF Spec, StandingStaysKnown

(***************************************************************************)
(* Coins are neither lost nor counted twice, in any view of the network    *)
(* that has what its transactions build on: what is unspent and what was   *)
(* paid add up to what there was.                                          *)
(***************************************************************************)
THEOREM MoneyIsConserved == Spec => []MoneyConserved
<1>1. TypeInv => MoneyConserved
  <2> SUFFICES ASSUME TypeInv, NEW V \in {Alive, stored} \cup {job[p].view : p \in Procs}, Whole(V)
               PROVE  Worth(Unspent(V)) + Paid(V) = InitialCoins * CoinValue
    BY DEF MoneyConserved
  <2>1. Alive \subseteq DOMAIN txs
    BY DEF TypeInv, TransfersTypeOK, Alive
  <2>2. Sound(Alive)
    BY <2>1 DEF TypeInv, IInv, Lasting, Sound
  <2>3. Standing(V)
    BY <2>2 DEF TypeInv, MoneyInv, Standing
  <2> QED
    BY <2>3, Conservation DEF TypeInv, MoneyInv
<1> QED
  BY <1>1, TypesInvariant, PTL

(***************************************************************************)
(* Every amount, fee and change of a transaction is a number between none  *)
(* and all the wallet started with, and every view names transactions.     *)
(***************************************************************************)
THEOREM TransfersTyped == Spec => []TransfersTypeOK
<1>1. TypeInv => TransfersTypeOK
  BY DEF TypeInv
<1> QED
  BY <1>1, TypesInvariant, PTL
=============================================================================
